---- MODULE Spec2Model ----
(***************************************************************************)
(* A model of the widget toolkit of Bubble-Shooter (src/Widgets.py,        *)
(* src/Mouse.py): the directory tree DirTree with its loader, sweep and    *)
(* refresh threads, the container Frame, and the pointer Cursor.           *)
(*                                                                         *)
(* Conventions.  Python lists are sequences and are indexed from 1, so     *)
(* locate_node_obj answers 0 where the code answers -1.  str(hash(path))   *)
(* is only ever compared for equality, so a path stands for its own hash.  *)
(* An uncaught exception on the main thread ends the main loop             *)
(* (src/Game.py has no handler): main_pc becomes "crashed" and exc names   *)
(* the exception.                                                          *)
(***************************************************************************)
EXTENDS Integers, Sequences, FiniteSets, TLC

\* ------------------------------------------------------------- bounds
\* NodeLoader objects created in one run (one per accepted expand).
MaxLoaders == 3
\* Sweep threads that are spawned and still wait for safety_lock; a further
\* spawn joins the waiting one (it would do the same work).
MaxSweeps == 1
\* Accepted refresh() calls in one run.
MaxRefresh == 1
\* Updates of the tree that are followed after the refresh button was
\* clicked.
MaxUpdates == 4

\* The width and the height of the two Frames: the pointer moves over the
\* columns 0..FrameW (the last is outside the Frames) and the rows
\* 0..FrameH - 1.
FrameW == 2

FrameH == 2

\* The number of add_widget and delete_widget calls that are followed.
MaxCalls == 4

\* The calls of path_binding that are followed.
MaxSelects == 2

\* The loaders that are followed where the labels are clicked.
MaxSelLoaders == 2

\* ------------------------------------------------- program constants
\* entry_height, as the only constructor call passes it.
EntryHeight == 30
\* DirTree.indent_x
IndentX == 20

\* ------------------------------------------------------ the file system
\* The directories the loaders scan: r is fs_root; a and b are its
\* sub-directories, x is the sub-directory of a.
Paths == {"r", "a", "b", "x"}

FsRoot == "r"

\* os.scandir(abs_path), directories only, in listing order.
ScanDir(p) ==
    CASE p = "r" -> <<"a", "b">>
      [] p = "a" -> <<"x">>
      [] OTHER   -> <<>>

\* Directories whose scan may raise OSError (an unreadable directory).
MayFail == {"b"}

VARIABLES
    \* ---- DirTree
    nodes,              \* DirTree.nodes: sequence of node object ids
    objs,               \* the DirNode / TextNode objects, by id
    child_widgets,      \* Frame.child_widgets of the tree: set of node ids
    schded_widgets,     \* DirTree.schded_widgets
    schded_del_widgets, \* DirTree.schded_del_widgets (widget names)
    thread_objs,        \* DirTree.thread_objs: path (hash) -> loader id, 0 = no key
    loaders,            \* the NodeLoader objects, by id
    spawn_wait_list,    \* DirTree.spawn_wait_list
    pending_nodes,      \* DirTree.pending_nodes (queue.Queue): items (path, dirs)
    unfinished,         \* Queue.unfinished_tasks of pending_nodes
    selected_path,      \* DirTree.selected_path
    safety_lock,        \* holder of DirTree.safety_lock: "free", "sweep", "clean"
    sweep_wait,         \* sweep threads spawned that wait for safety_lock
    sweep_buf,          \* the list run_del_nodes has built and not yet assigned
    clean_pc,           \* position of the clean_cache thread
    clean_join,         \* the loaders clean_cache still has to join
    refreshes,          \* accepted refresh() calls so far
    dir_stack,          \* reload_dirs: dir_stack
    stack_idx,          \* reload_dirs: stack_idx
    flat_idx,           \* reload_dirs: flat_idx (1-based)
    spawn_idx,          \* clean_cache: position of its loop over spawn_wait_list
    updates,            \* DirTree.update calls begun since refresh() was accepted
    main_pc,            \* position of the main thread inside DirTree.update
    exc,                \* the exception that ended the main loop, or "none"
    \* ---- history (not program state)
    stale,              \* stale[p]: p was collapsed or removed while a loader
                        \* result for p was outstanding, and not expanded since
    last_call,          \* the last start_path_loader call and what it returned
    \* ---- Frames and their widgets
    frames,             \* per Frame: child_widgets, real_positions,
                        \* scrollbar_names, render_z_order
    parent,             \* BaseWidget.parent of every widget
    fcall,              \* history: the last add_widget / delete_widget call
                        \* and the exception it raised
    \* ---- the pointer and a tick of the main loop
    mouse_obj,          \* the Mouse.Cursor of the main loop
    tick_pc,            \* position of the main loop inside a tick
    handed,             \* per Frame: the pointer its update handed to its children
    collide,            \* per Frame: `collide` at the end of its update
    btn,                \* the Buttons: lock, mouse_down, size, fired
    passed,             \* history, per Frame: the Cursor object its last update
                        \* was given, before and after, and what it gave on
    key_events,         \* Game.key_events: the keyboard events of the tick
    \* ---- one Frame in pixels, and the cache file of one directory
    geom,               \* the Frame: size, scroll offsets, children's rects
    cache,              \* the listing, the cache file, what scan and load returned
    path_bound,         \* the paths path_binding was called with, in order
    held,               \* the index into nodes that start_path_loader holds
                        \* between locate_node_obj and its use
    \* ---- Storage.ScoreDB
    score_db            \* the scoreboard file, data_queue, io_thread, and
                        \* what the last get_data returned

treeVars == <<nodes, objs, child_widgets, schded_widgets, schded_del_widgets,
              thread_objs, loaders, spawn_wait_list, pending_nodes, unfinished,
              selected_path, safety_lock, sweep_wait, sweep_buf, clean_pc,
              clean_join, main_pc, exc, stale, last_call>>

\* The locals of the refresh thread.
cleanVars == <<refreshes, dir_stack, stack_idx, flat_idx, spawn_idx, updates>>

frameVars == <<frames, parent, fcall>>

ptrVars == <<mouse_obj, tick_pc, handed, collide, btn, passed, key_events>>

sideVars == <<geom, cache, path_bound, held, score_db>>

\* What the tree's own methods leave alone.
uiVars == <<frameVars, ptrVars, sideVars>>

vars == <<treeVars, cleanVars, frameVars, ptrVars, sideVars>>

\* ------------------------------------------------------------ helpers
Min(S) == CHOOSE x \in S : \A y \in S : x <= y

\* list.append in the place of list.insert
AppendAt(s, i, e) == Append(s, e)

\* list.insert(i, e), with positions from 1
InsertAt(s, i, e) == SubSeq(s, 1, i - 1) \o <<e>> \o SubSeq(s, i, Len(s))

\* s[lo..hi] replaced by the sequence r (Python slice assignment).
ReplaceSlice(s, lo, hi, r) == SubSeq(s, 1, lo - 1) \o r \o SubSeq(s, hi + 1, Len(s))

SeqToSet(s) == {s[i] : i \in 1..Len(s)}

\* last_call: the last start_path_loader call or queue item handled, what it
\* answered (for an item: whether nodes were created), and whether the path was
\* stale at that moment.
NoCall == [mode |-> "none", path |-> "none", ret |-> FALSE, stale |-> FALSE]

\* ------------------------------------------------------ node objects
\* widget names: "!dir_node_<hash>" / "!text_node_<hash>" with the numeric
\* suffix get_free_id adds (0: no suffix).
WName(kind, p, suffix) == <<kind, p, suffix>>

\* "!dir_node_root"
RootName == WName("dir", "root", 0)

DirNode(y, lvl, p, sel, name) ==
    [kind |-> "dir", path |-> p, lvl |-> lvl, y |-> y, del |-> FALSE,
     text |-> "", arrow |-> "right", sel |-> sel, name |-> name]

TextNode(y, lvl, p, text, name) ==
    [kind |-> "text", path |-> p, lvl |-> lvl, y |-> y, del |-> FALSE,
     text |-> text, arrow |-> "right", sel |-> FALSE, name |-> name]

\* The names that are keys of child_widgets.
WidgetNames(cw) == {objs[w].name : w \in cw}

\* DirTree.get_free_id against the keys `names`.
GetFreeId(kind, p, names) ==
    WName(kind, p, Min({s \in 0..(Cardinality(names) + 1) : WName(kind, p, s) \notin names}))

\* A lock that anyone can take at any time.
LockAlwaysFree == TRUE

\* DirTree.safety_lock.acquire() returns: the lock is free.
LockFree == safety_lock = "free"

\* Thread.is_alive of a NodeLoader.
IsAlive(l) == loaders[l].pc \in {"run", "scanned", "put"}

\* clean_thread is not None and clean_thread.is_alive()
CleanAlive == clean_pc \notin {"none", "dead"}

\* DirTree.locate_node_obj
LocateNodeObj(p) ==
    LET hits == {i \in 1..Len(nodes) : objs[nodes[i]].kind = "dir" /\ objs[nodes[i]].path = p}
    IN  IF hits = {} THEN 0
        ELSE IF objs[nodes[Min(hits)]].del THEN 0 ELSE Min(hits)

\* shift_y_pos(d) on every node at the positions lo.. of the list seq.
ShiftY(ob, seq, lo, d) ==
    [i \in DOMAIN ob |->
        IF \E k \in lo..Len(seq) : seq[k] = i THEN [ob[i] EXCEPT !.y = @ + d] ELSE ob[i]]

\* DirTree.clean_threads: the filtered dictionary.
CleanThreads(to) ==
    [p \in Paths |->
        IF to[p] # 0 /\ IsAlive(to[p]) /\ ~loaders[to[p]].canceled THEN to[p] ELSE 0]

\* A loader result for p is outstanding: a loader of p has not ended, or an
\* item of p is queued.
Outstanding(p) ==
    \/ \E l \in 1..Len(loaders) : loaders[l].path = p /\ loaders[l].pc # "done"
    \/ \E i \in 1..Len(pending_nodes) : pending_nodes[i].path = p

\* The interpreter frees an object nothing refers to.  Node objects are
\* referred to by nodes, child_widgets, schded_widgets and the list a sweep has
\* built; Store sets these and objs from the values an operation leaves, the
\* unreferenced objects dropped and the others renumbered in their order.
Rank(i, R) == Cardinality({j \in R : j <= i})

Store(nd, ob, cw, sw, sb) ==
    LET R == SeqToSet(nd) \cup cw \cup SeqToSet(sw) \cup SeqToSet(sb)
    IN  /\ objs' = [k \in 1..Cardinality(R) |-> ob[CHOOSE i \in R : Rank(i, R) = k]]
        /\ nodes' = [k \in 1..Len(nd) |-> Rank(nd[k], R)]
        /\ child_widgets' = {Rank(i, R) : i \in cw}
        /\ schded_widgets' = [k \in 1..Len(sw) |-> Rank(sw[k], R)]
        /\ sweep_buf' = [k \in 1..Len(sb) |-> Rank(sb[k], R)]

\* DirTree.schd_del_w for the widget names `names`, in order.
SchdDelW(sdw, names) == sdw \o names

\* ------------------------------------------------- frames and widgets
\* Two Frames of the same place and size, whose z_index is 1 and 2.
Frames == {"f1", "f2"}

\* A Frame that is a child widget: it is built with one Button in it, and
\* is added to a Frame of the main loop like any widget.
InnerFrames == {"n1"}

\* The Frame's rect: x, y, width, height.  The inner Frame covers the last
\* column of the Frame that holds it.
FrameRect(f) ==
    IF f \in InnerFrames THEN [x |-> FrameW - 1, y |-> 0, w |-> 1, h |-> FrameH]
    ELSE [x |-> 0, y |-> 0, w |-> FrameW, h |-> FrameH]

\* Frame.z_index
ZIndex(f) == IF f = "f2" THEN 2 ELSE 1

\* Frame.x_scroll_offset, Frame.y_scroll_offset: no scrollbar is moved here.
XScrollOffset(f) == 0

YScrollOffset(f) == 0

\* The widget objects: two Buttons and a Label, a vertical and a horizontal
\* ScrollBar, and the two RadioButtons of a RadioGroup.
Widgets == {"b1", "b2", "l1", "s1", "h1", "r1", "r2", "n1"}

\* BaseWidget.parent of a widget that was added nowhere
None == "None"

WidgetClass(w) ==
    CASE w \in {"b1", "b2", "b3"} -> "Button"
      [] w = "l1" -> "Label"
      [] w = "n1" -> "Frame"
      [] w \in {"s1", "h1"} -> "ScrollBar"
      [] OTHER -> "RadioButton"

\* ScrollBar.orientation
Orientation(w) == IF w = "s1" THEN "vertical" ELSE "horizontal"

\* BaseWidget.get_widget_name: the names are the defaults of the classes, so
\* the two Buttons share one, the two ScrollBars and the two RadioButtons too.
GetWidgetName(w) ==
    CASE w \in {"b1", "b2"} -> "!button"
      [] w = "l1" -> "!label"
      [] w = "n1" -> "!frame"
      [] w \in {"s1", "h1"} -> "!scrollbar"
      [] OTHER -> "!radio_button"

WidgetIds == {GetWidgetName(w) : w \in Widgets}

RadioGroups == {"g1"}

\* RadioGroup.get_children
GetChildren(g) == <<"r1", "r2">>

\* widget.rect in the coordinates of its Frame; a ScrollBar's rect is the
\* one ScrollBar.set_parent computes for a bar of width 1 with shorten set.
Rect(w) ==
    CASE w = "b1" -> [x |-> 0, y |-> 0, w |-> 1, h |-> 1]
      [] w = "b2" -> [x |-> 0, y |-> 0, w |-> FrameW, h |-> FrameH]
      [] w = "l1" -> [x |-> FrameW - 1, y |-> FrameH - 1, w |-> 1, h |-> 1]
      [] w = "s1" -> [x |-> FrameW - 1, y |-> 0, w |-> 1, h |-> FrameH - 1]
      [] w = "h1" -> [x |-> 0, y |-> FrameH - 1, w |-> FrameW - 1, h |-> 1]
      [] w = "n1" -> FrameRect(w)
      [] w = "b3" -> [x |-> 0, y |-> 0, w |-> 1, h |-> 1]
      [] OTHER -> [x |-> 0, y |-> FrameH - 1, w |-> 1, h |-> 1]

\* hasattr(widget, "mask")
HasMask(w) == WidgetClass(w) \in {"Button", "RadioButton"}

\* (rect.centerx, rect.centery)
Center(w) == <<Rect(w).x + (Rect(w).w \div 2), Rect(w).y + (Rect(w).h \div 2)>>

\* dict[k] = v, dict.pop(k) and list.remove(e)
DictPut(d, k, v) == [n \in (DOMAIN d) \cup {k} |-> IF n = k THEN v ELSE d[n]]

DictPop(d, k) == [n \in (DOMAIN d) \ {k} |-> d[n]]

ListRemove(s, e) ==
    LET hits == {i \in 1..Len(s) : s[i] = e}
    IN  IF hits = {} THEN s
        ELSE SubSeq(s, 1, Min(hits) - 1) \o SubSeq(s, Min(hits) + 1, Len(s))

\* Frame.__init__: the four indices of an empty Frame.  child_widgets is the
\* list of the dict's values in insertion order; its keys are their names.
EmptyFrame ==
    [child_widgets |-> <<>>, real_positions |-> <<>>,
     scrollbar_names |-> <<>>, render_z_order |-> <<>>]

\* The keys of child_widgets.
ChildIds(fr) == {GetWidgetName(fr.child_widgets[i]) : i \in 1..Len(fr.child_widgets)}

\* self.child_widgets[widget_id]
ChildObj(fr, widget_id) ==
    fr.child_widgets[CHOOSE i \in 1..Len(fr.child_widgets) :
                        GetWidgetName(fr.child_widgets[i]) = widget_id]

\* A Frame that never finds a name taken.
NameNeverTaken(st, f, w) == FALSE

\* w_name in self.child_widgets
NameTaken(st, f, w) == GetWidgetName(w) \in ChildIds(st.frames[f])

\* A widget that never knows of a parent.
NeverHasParent(st, w) == FALSE

\* BaseWidget.has_parent
HasParent(st, w) == st.parent[w] # None

\* Frame.get_content_width raises ValueError (max of an empty sequence) when
\* no child is other than a ScrollBar; ScrollBar.set_parent calls it for a
\* horizontal bar.
ContentWidthFails(fr) ==
    \A i \in 1..Len(fr.child_widgets) : WidgetClass(fr.child_widgets[i]) = "ScrollBar"

\* Frame.add_widget for one widget, on the state st = (frames, parent, exc).
AddOne(st, f, w) ==
    LET w_name == GetWidgetName(w)
        fr == st.frames[f]
        is_bar == WidgetClass(w) = "ScrollBar"
        names1 == IF is_bar THEN Append(fr.scrollbar_names, w_name) ELSE fr.scrollbar_names
    IN  IF NameTaken(st, f, w) THEN [st EXCEPT !.exc = "FrameError1"]
        ELSE IF HasParent(st, w) THEN [st EXCEPT !.exc = "FrameError2"]
        ELSE IF is_bar /\ Orientation(w) = "horizontal" /\ ContentWidthFails(fr)
        THEN [st EXCEPT !.exc = "ValueError",
                        !.parent[w] = f,
                        !.frames[f].scrollbar_names = names1]
        ELSE [st EXCEPT !.parent[w] = f,
                        !.frames[f] =
                            [child_widgets |-> Append(fr.child_widgets, w),
                             real_positions |-> DictPut(fr.real_positions, w_name, Center(w)),
                             scrollbar_names |-> names1,
                             render_z_order |-> Append(fr.render_z_order, w_name)]]

\* Frame.add_widget for the widgets ws one after the other, up to the first
\* that raises (the loop over the children of a RadioGroup).
RECURSIVE AddAll(_, _, _)
AddAll(st, f, ws) ==
    IF ws = <<>> \/ st.exc # "none" THEN st
    ELSE AddAll(AddOne(st, f, Head(ws)), f, Tail(ws))

\* Frame.delete_widget on the state st.
DeleteOne(st, f, widget_id) ==
    LET fr == st.frames[f]
    IN  IF widget_id \in ChildIds(fr)
        THEN [st EXCEPT !.frames[f] =
                 [child_widgets |-> SelectSeq(fr.child_widgets,
                                              LAMBDA w : GetWidgetName(w) # widget_id),
                  real_positions |-> DictPop(fr.real_positions, widget_id),
                  scrollbar_names |-> IF WidgetClass(ChildObj(fr, widget_id)) = "ScrollBar"
                                      THEN ListRemove(fr.scrollbar_names, widget_id)
                                      ELSE fr.scrollbar_names,
                  render_z_order |-> ListRemove(fr.render_z_order, widget_id)]]
        ELSE [st EXCEPT !.exc = "WidgetIDError"]

\* No Frame method has been called yet; n counts the calls.
NoFCall == [op |-> "none", frame |-> "none", arg |-> "none", exc |-> "none", n |-> 0]

\* The Frames and widgets after their construction.
NoWidgets == [frames |-> [f \in Frames |-> EmptyFrame],
              parent |-> [w \in Widgets |-> None],
              exc |-> "none"]

InitFrames ==
    /\ frames = NoWidgets.frames
    /\ parent = NoWidgets.parent
    /\ fcall = NoFCall

\* ------------------------------------------------------- the pointer
\* Mouse.Cursor(): of the buttons, button 1 is followed; of the scroll
\* amount, the vertical one.  mask: the 1x1 mask is filled.
NewCursor ==
    [x |-> 0, y |-> 0, z_index |-> 1, leave |-> FALSE, buttons |-> FALSE, mask |-> TRUE,
     scroll_amount |-> 0]

\* Game.mouse_obj, the Cursor object of the main loop, as an object.
MainRef == <<"main", "mouse_obj">>

\* Cursor.set_pos
SetPos(c, new_x, new_y) == IF c.leave THEN c ELSE [c EXCEPT !.x = new_x, !.y = new_y]

\* Cursor.copy
Copy(c) ==
    LET new_cur == [SetPos([NewCursor EXCEPT !.buttons = c.buttons, !.z_index = c.z_index],
                           c.x, c.y)
                       EXCEPT !.scroll_amount = c.scroll_amount]
    IN  IF c.leave THEN [new_cur EXCEPT !.mask = FALSE, !.leave = TRUE] ELSE new_cur

\* Cursor.mouse_enter
MouseEnter(c) == [c EXCEPT !.mask = TRUE, !.leave = FALSE]

\* A mouse_leave that leaves the Cursor as it is.
MouseStays(c) == c

\* Cursor.mouse_leave
MouseLeave(c) ==
    [SetPos(c, -1, -1) EXCEPT !.mask = FALSE, !.leave = TRUE, !.buttons = FALSE,
                              !.scroll_amount = 0]

\* Cursor.reset_scroll
ResetScroll(c) == [c EXCEPT !.scroll_amount = 0]

\* Cursor.push_scroll
PushScroll(c, y_amount) ==
    IF c.leave THEN c ELSE [c EXCEPT !.scroll_amount = @ + y_amount]

\* Cursor.reset_z_index
ResetZIndex(c) == [c EXCEPT !.z_index = 1]

\* An increment_z_index that leaves the counter as it is.
KeepZIndex(c) == c

\* Cursor.increment_z_index
IncrementZIndex(c) == [c EXCEPT !.z_index = @ + 1]

\* pygame.Rect.collidepoint
CollidePoint(r, px, py) ==
    /\ r.x <= px /\ px < r.x + r.w
    /\ r.y <= py /\ py < r.y + r.h

\* pygame.sprite.collide_mask(widget, cursor): the widget's mask is full.
CollideMask(w, c) == c.mask /\ CollidePoint(Rect(w), c.x, c.y)

\* pygame.sprite.collide_rect(widget, cursor): the cursor's rect is 1x1.
CollideRect(w, c) == CollidePoint(Rect(w), c.x, c.y)

\* A ScrollBar the pointer is never over.
NeverColliding(w, c) == FALSE

\* ScrollBar.mouse_colliding
MouseColliding(w, c) == CollidePoint(Rect(w), c.x, c.y)

\* The Buttons, whose update is followed.
Buttons == {w \in Widgets : WidgetClass(w) = "Button"}

\* AnimatedSurface.__init__: lock, mouse_down; size: the last change_size
\* request; fired: the callback was called by the last update.
NewButton == [lock |-> TRUE, mouse_down |-> FALSE, size |-> "decrease", fired |-> FALSE]

InitPointer ==
    /\ mouse_obj = NewCursor
    /\ tick_pc = "events"
    /\ handed = [f \in Frames |-> NewCursor]
    /\ collide = [f \in Frames |-> FALSE]
    /\ btn = [w \in Buttons |-> NewButton]
    /\ passed = [f \in Frames \cup InnerFrames |->
                   [ref |-> MainRef, before |-> NewCursor, after |-> NewCursor,
                    given |-> {}, called |-> FALSE, collide |-> FALSE,
                    scrolled_rel_mouse |-> NewCursor, rel_mouse |-> NewCursor,
                    keyboard_events |-> <<>>, keyboard_in |-> <<>>]]
    /\ key_events = <<>>

\* ------------------------------------------ the geometry of a Frame
\* One Frame in pixels: its size, its scroll offsets, the rects of its
\* children and the positions recorded for resizing.  The children are a
\* Button (b1), a Label (l1) and a vertical ScrollBar (s1).

\* Frame.scroll_constant
ScrollConstant == 20

\* padding_bottom of the Frame (the display frame of the game).
PaddingBottom == 20

\* ScrollBar(width=20)
BarWidth == 20

\* The smallest thumb of update_scrollbar_length.
MinThumb == 30

\* The size the Frame is constructed with: real_width, real_height.
RealSize == [w |-> 100, h |-> 100]

\* The sizes update_size is called with.
Sizes == {[w |-> 100, h |-> 100], [w |-> 200, h |-> 150], [w |-> 50, h |-> 80]}

\* The amounts add_scroll_offset is called with.
Amounts == {-200, -1, 0, 1, 200}

Directions == {"vertical", "horizontal"}

\* widget.image.get_width(), get_height() of a child that is not a ScrollBar.
ImageSize(w) == IF WidgetClass(w) = "Button" THEN [w |-> 20, h |-> 10] ELSE [w |-> 30, h |-> 20]

Max(S) == CHOOSE x \in S : \A y \in S : x >= y

\* int(): truncation towards zero of the quotient a / b, b > 0.
TruncDiv(a, b) == IF a >= 0 THEN a \div b ELSE -((-a) \div b)

\* The children of the Frame g that are not ScrollBars.
NonBars(g) == {g.kids[i] : i \in {j \in 1..Len(g.kids) : WidgetClass(g.kids[j]) # "ScrollBar"}}

\* Frame.get_content_width raises ValueError: max() of an empty sequence.
ContentWidthRaises(g) == NonBars(g) = {}

\* Frame.get_content_width, where it returns.
GetContentWidth(g) ==
    Max({g.rect[w].x + g.rect[w].w : w \in NonBars(g)}) + PaddingBottom

\* get_content_height that takes every child, ScrollBars included.
ContentHeightOfAll(g) ==
    LET w_bottoms == {g.rect[g.kids[i]].y + g.rect[g.kids[i]].h : i \in 1..Len(g.kids)}
    IN  (IF w_bottoms # {} THEN Max(w_bottoms) ELSE 0) + PaddingBottom

\* Frame.get_content_height
GetContentHeight(g) ==
    LET w_bottoms == {g.rect[w].y + g.rect[w].h : w \in NonBars(g)}
    IN  (IF w_bottoms # {} THEN Max(w_bottoms) ELSE 0) + PaddingBottom

\* math.copysign(self.scroll_constant, amount) for an int amount.
CopySign(c, amount) == IF amount >= 0 THEN c ELSE -c

\* Frame.add_scroll_offset(amount, direction): the Frame after the call, the
\* value returned in ret, the exception in exc.
AddScrollOffset(g, amount, direction) ==
    IF direction = "vertical"
    THEN LET y_scroll_offset == g.y_scroll_offset + amount + CopySign(ScrollConstant, amount)
             clamped == IF y_scroll_offset > 0 THEN 0
                        ELSE IF y_scroll_offset < -(GetContentHeight(g) - g.height)
                             THEN -(GetContentHeight(g) - g.height)
                             ELSE y_scroll_offset
         IN  [g EXCEPT !.y_scroll_offset = clamped, !.ret = clamped, !.exc = "none"]
    ELSE LET x_scroll_offset == g.x_scroll_offset + amount + CopySign(ScrollConstant, amount)
         IN  IF x_scroll_offset > 0
             THEN [g EXCEPT !.x_scroll_offset = 0, !.ret = 0, !.exc = "none"]
             ELSE IF ContentWidthRaises(g)
             THEN [g EXCEPT !.x_scroll_offset = x_scroll_offset, !.ret = None,
                            !.exc = "ValueError"]
             ELSE LET clamped == IF x_scroll_offset < -(GetContentWidth(g) - g.width)
                                 THEN -(GetContentWidth(g) - g.width)
                                 ELSE x_scroll_offset
                  IN  [g EXCEPT !.x_scroll_offset = clamped, !.ret = clamped, !.exc = "none"]

\* The quotient a / b truncated towards zero, b # 0: the places along the
\* track are followed in whole pixels.
Quot(a, b) == IF b > 0 THEN TruncDiv(a, b) ELSE TruncDiv(-a, -b)

\* ScrollBar.button_scroll_amount
ButtonScrollAmount == 10

\* ScrollThumb.check_bounds
CheckBounds(th) ==
    [th EXCEPT !.y = IF th.y < 0 THEN 0
                     ELSE IF th.y > th.scroll_distance THEN th.scroll_distance
                     ELSE th.y]

\* ScrollThumb.update_thumb_length
UpdateThumbLength(th, thumb_length) ==
    CheckBounds([th EXCEPT !.length_updated = TRUE,
                           !.height = thumb_length,
                           !.scroll_distance = th.track_length - thumb_length])

\* ScrollThumb.update_track_length
UpdateTrackLength(th, track_len) == [th EXCEPT !.track_length = track_len]

\* ScrollThumb.__init__ of a vertical thumb
NewThumb(scrollbar_width, scrollbar_height, thumb_length) ==
    UpdateThumbLength([y |-> 0, height |-> 0,
                       track_length |-> scrollbar_height - scrollbar_width * 2,
                       scroll_distance |-> 0, length_updated |-> FALSE,
                       lock |-> TRUE, mouse_down |-> FALSE, mouse_offset |-> -1],
                      thumb_length)

\* ScrollThumb.force_set_pos
ForceSetPos(th, new_y) == [th EXCEPT !.y = new_y]

\* The thumb of a ScrollBar that has no parent yet.
NoThumb ==
    [y |-> 0, height |-> 0, track_length |-> 0, scroll_distance |-> 0,
     length_updated |-> FALSE, lock |-> TRUE, mouse_down |-> FALSE, mouse_offset |-> -1]

\* ScrollButton.__init__ at (0, y)
NewScrollButton(y) == [y |-> y, lock |-> TRUE, mouse_down |-> FALSE, repeating |-> FALSE]

\* scroll_factor of a ScrollBar that has none: content_distance over
\* scrollbar_distance.
NoFactor == [content_distance |-> 0, scrollbar_distance |-> 0]

\* A set_scroll_offset that leaves the offset as it is.
KeepScrollOffset(g, offset) == g

\* Frame.set_scroll_offset(offset, "vertical")
SetScrollOffset(g, offset) == [g EXCEPT !.y_scroll_offset = offset]

\* ScrollBar.update_scrollbar_length of the vertical ScrollBar bar;
\* bar_height is the ScrollBar's own height, which its rect may not follow.  The
\* content height is positive in every layout, and so is the track.  The
\* thumb is the track when the content fits the bar, and never shorter
\* than MinThumb; scroll_factor is None (can_scroll FALSE) when the thumb
\* fills the track or the content is as high as the Frame.
UpdateScrollbarLength(g, bar, first_run, resize) ==
    LET track_length == g.bar_height - g.rect[bar].w * 2
        content_height == GetContentHeight(g)
        fits == g.bar_height >= content_height
        short == track_length * g.bar_height < MinThumb * content_height
        thumb_length == IF fits THEN track_length
                        ELSE IF short THEN MinThumb
                        ELSE (track_length * g.bar_height) \div content_height
        thumb_is_track == thumb_length = track_length
        g1 == [g EXCEPT !.content_height = content_height]
        g2 == IF thumb_is_track THEN SetScrollOffset(g1, 0) ELSE g1
        thumb == IF first_run THEN NewThumb(g.rect[bar].w, g.bar_height, thumb_length)
                 ELSE UpdateThumbLength(IF resize THEN UpdateTrackLength(g.thumb, track_length)
                                        ELSE g.thumb,
                                        thumb_length)
        scrollbar_distance == track_length - thumb_length
        content_distance == content_height - g.height
        scrolls == scrollbar_distance # 0 /\ content_distance # 0
    IN  IF ~first_run /\ ~resize /\ content_height = g.content_height THEN g
        ELSE [g2 EXCEPT !.thumb = thumb,
                        !.can_scroll = scrolls,
                        !.scroll_factor =
                            IF scrolls
                            THEN [content_distance |-> content_distance,
                                  scrollbar_distance |-> scrollbar_distance]
                            ELSE NoFactor]

\* ScrollBar.scroll_by_content, from the Frame `moved` that
\* add_scroll_offset left: the thumb is put where the content is.
FollowContent(g, moved) ==
    [moved EXCEPT !.ret = g.ret, !.exc = g.exc,
                  !.thumb = ForceSetPos(g.thumb,
                                        Quot(-moved.y_scroll_offset
                                                 * g.scroll_factor.scrollbar_distance,
                                             g.scroll_factor.content_distance))]

\* ScrollBar.scroll_by_content(value)
ScrollByContent(g, value) ==
    IF ~g.can_scroll THEN g
    ELSE FollowContent(g, AddScrollOffset(g, value, "vertical"))

\* ScrollButton.update, from what it finds: collision with the pointer,
\* and pressed, the button going down in this update.
ButtonPressed(b, c, collision, pressed, elapsed) ==
    [button |-> [b EXCEPT !.mouse_down = IF pressed THEN TRUE
                                         ELSE IF ~c.buttons THEN FALSE
                                         ELSE @,
                          !.lock = IF ~collision THEN TRUE
                                   ELSE IF ~pressed /\ ~c.buttons THEN FALSE
                                   ELSE @,
                          !.repeating = /\ pressed \/ (c.buttons /\ b.mouse_down)
                                        /\ (b.repeating \/ (~pressed /\ elapsed > 2))],
     trigger |-> \/ pressed
                 \/ c.buttons /\ b.mouse_down /\ b.repeating /\ elapsed > 1]

\* The rect of the ScrollButton b.
ButtonRect(b) == [x |-> 0, y |-> b.y, w |-> BarWidth, h |-> BarWidth]

\* ScrollButton.update of the button b for the pointer c, relative to the
\* ScrollBar; elapsed is button_timer.get_time() in tenths of a second, read
\* when the button is held (it is 0 right after a press).
ScrollButtonUpdate(b, c, elapsed) ==
    ButtonPressed(b, c, CollidePoint(ButtonRect(b), c.x, c.y),
                  CollidePoint(ButtonRect(b), c.x, c.y) /\ c.buttons /\ ~b.mouse_down /\ ~b.lock,
                  elapsed)

\* ScrollThumb.update after the thumb th1 followed the pointer: the start
\* and the end of a drag.
ThumbPress(th1, c, collision, did_scroll) ==
    [thumb |-> [th1 EXCEPT
                   !.mouse_down = IF collision /\ c.buttons /\ ~th1.mouse_down /\ ~th1.lock
                                  THEN TRUE
                                  ELSE IF ~c.buttons THEN FALSE ELSE @,
                   !.mouse_offset = IF collision /\ c.buttons /\ ~th1.mouse_down /\ ~th1.lock
                                    THEN c.y - th1.y
                                    ELSE IF ~c.buttons /\ th1.mouse_down THEN -1 ELSE @,
                   !.lock = IF ~collision THEN TRUE
                            ELSE IF ~c.buttons THEN FALSE
                            ELSE @,
                   !.length_updated = FALSE],
     did_scroll |-> did_scroll]

\* The rect of the ScrollThumb th.
ThumbRect(th) == [x |-> 0, y |-> th.y, w |-> BarWidth, h |-> th.height]

\* The first block of ScrollThumb.update: a thumb held down follows a
\* pointer that is in the window.
ThumbDrag(th, c) ==
    IF th.mouse_down /\ ~c.leave
    THEN CheckBounds([th EXCEPT !.y = c.y - th.mouse_offset])
    ELSE th

\* ScrollThumb.update, from the thumb th1 that followed the pointer.
ThumbDragged(th, th1, c) ==
    ThumbPress(th1, c, CollidePoint(ThumbRect(th1), c.x, c.y),
               (th.mouse_down /\ ~c.leave) \/ th.length_updated)

\* ScrollThumb.update for the pointer c, relative to the track.
ThumbUpdate(th, c) == ThumbDragged(th, ThumbDrag(th, c), c)

\* One of the three scroll_by_content calls of ScrollBar.update.
ScrollIf(g, trigger, value) == IF trigger THEN ScrollByContent(g, value) ELSE g

\* The last block of ScrollBar.update, on the Frame g1 whose ScrollBar has
\* updated its buttons and its thumb.
ScrollBarScroll(g1, did_scroll, wheel, up_val, down_val) ==
    IF ~g1.can_scroll THEN g1
    ELSE IF did_scroll
    THEN SetScrollOffset(g1, -Quot(g1.scroll_factor.content_distance * g1.thumb.y,
                                   g1.scroll_factor.scrollbar_distance))
    ELSE ScrollIf(ScrollIf(ScrollIf(g1, wheel # 0, wheel),
                           up_val, ButtonScrollAmount),
                  down_val, -ButtonScrollAmount)

\* ScrollBar.update from the results of its parts' updates.
ScrollBarParts(g0, up, down, th, wheel) ==
    ScrollBarScroll([g0 EXCEPT !.up_button = up.button, !.down_button = down.button,
                               !.thumb = th.thumb],
                    th.did_scroll, wheel, up.trigger, down.trigger)

\* ScrollBar.update after update_scrollbar_length, for the pointer
\* relative to the ScrollBar.
ScrollBarPointer(g0, bar, relative_mouse, wheel, up_time, down_time) ==
    ScrollBarParts(g0,
                   ScrollButtonUpdate(g0.up_button, relative_mouse, up_time),
                   ScrollButtonUpdate(g0.down_button, relative_mouse, down_time),
                   ThumbUpdate(g0.thumb,
                               SetPos(relative_mouse, relative_mouse.x,
                                      relative_mouse.y - g0.rect[bar].w)),
                   wheel)

\* ScrollBar.update(mouse_obj, keyboard_events) of the vertical ScrollBar
\* bar; up_time and down_time are what the timers of its two buttons read.
ScrollBarUpdate(g, bar, mouse, up_time, down_time) ==
    ScrollBarPointer(UpdateScrollbarLength(g, bar, FALSE, FALSE), bar,
                     SetPos(Copy(mouse), mouse.x - g.rect[bar].x, mouse.y - g.rect[bar].y),
                     mouse.scroll_amount, up_time, down_time)

\* ScrollBar.set_parent of the vertical ScrollBar (shorten = False).
BarSetParent(g, bar) ==
    [UpdateScrollbarLength(
        [g EXCEPT !.rect[bar] = [x |-> g.width - BarWidth, y |-> 0, w |-> BarWidth, h |-> g.height],
                  !.bar_height = g.height],
        bar, TRUE, FALSE)
        EXCEPT !.up_button = NewScrollButton(0),
               !.down_button = NewScrollButton(g.height - BarWidth)]

\* The rect of no widget.
NoRect == [x |-> 0, y |-> 0, w |-> 0, h |-> 0]

\* Frame(0, 0, width, height, padding_bottom) in pixels.
NewGeom ==
    [width |-> RealSize.w, height |-> RealSize.h, new_size |-> FALSE,
     x_scroll_offset |-> 0, y_scroll_offset |-> 0,
     kids |-> <<>>,
     rect |-> [w \in Widgets |-> NoRect],
     real_positions |-> [w \in Widgets |-> <<0, 0>>],
     resize_exclude |-> [w \in Widgets |-> "none"],
     content_height |-> 0, can_scroll |-> FALSE, bar_height |-> 0,
     scroll_factor |-> NoFactor, thumb |-> NoThumb,
     up_button |-> NewScrollButton(0), down_button |-> NewScrollButton(0),
     op |-> "none", arg |-> <<>>, ret |-> None, exc |-> "none", n |-> 0]

\* Frame.add_widget of a child constructed at (k.x, k.y); a ScrollBar takes
\* its place from the Frame.  real_positions holds the center of the rect.
GeomAdd(g, k) ==
    LET placed == IF WidgetClass(k.id) = "ScrollBar" THEN BarSetParent(g, k.id)
                  ELSE [g EXCEPT !.rect[k.id] = [x |-> k.x, y |-> k.y,
                                                 w |-> ImageSize(k.id).w,
                                                 h |-> ImageSize(k.id).h]]
        r == placed.rect[k.id]
    IN  [placed EXCEPT !.kids = Append(@, k.id),
                       !.real_positions[k.id] = <<r.x + r.w \div 2, r.y + r.h \div 2>>]

RECURSIVE GeomAddAll(_, _)
GeomAddAll(g, ks) == IF ks = <<>> THEN g ELSE GeomAddAll(GeomAdd(g, Head(ks)), Tail(ks))

Kid(id, x, y) == [id |-> id, x |-> x, y |-> y]

\* The Frames the geometry is followed for: content higher and wider than
\* the Frame, content smaller than the Frame, children above y = 0, a
\* ScrollBar alone, each with and without the ScrollBar.
GeomLayouts ==
    {<<Kid("b1", 10, 5), Kid("l1", 90, 130)>>,
     <<Kid("b1", 10, 5), Kid("l1", 90, 130), Kid("s1", 0, 0)>>,
     <<Kid("b1", 10, 5)>>,
     <<Kid("b1", 19, 52), Kid("s1", 0, 0)>>,
     <<Kid("b1", 10, -60), Kid("l1", 40, -35)>>,
     <<Kid("b1", 10, -60), Kid("l1", 40, -35), Kid("s1", 0, 0)>>,
     <<Kid("s1", 0, 0)>>}

\* An argument that is None, and one that is a number.
Nothing == <<>>

Some(v) == <<v>>

\* The centres |c| for which the binary64 product size * (c / 100) falls
\* short of the whole number it stands for (real_width, real_height = 100,
\* |c| <= 200).
FloatShort(size) ==
    CASE size \in {100, 200} -> {29, 57, 58, 113, 114, 115, 116}
      [] size = 150 -> {82, 114, 138, 164}
      [] size = 50 -> {58, 114, 116}
      [] OTHER -> {}

\* A resize that leaves every child where it was recorded.
Unscaled(size, c, real) == c

\* self.width * (self.real_positions[w_name][0] / self.real_width), as the
\* int that the assignment to rect.center makes of the float: the quotient
\* and the product are rounded to binary64, the result is truncated
\* towards zero.
Scale(size, c, real) ==
    LET a == IF c >= 0 THEN c ELSE -c
        m == (size * a) \div real - (IF a \in FloatShort(size) THEN 1 ELSE 0)
    IN  IF c >= 0 THEN m ELSE -m

\* Frame.update_size(new_size)
UpdateSize(g, new_size) == [g EXCEPT !.new_size = TRUE, !.width = new_size.w, !.height = new_size.h]

\* Frame.update_widget_pos(widget, new_pos, anchor); a coordinate of new_pos
\* is Nothing or Some(v).
UpdateWidgetPos(g, widget, new_pos, anchor) ==
    LET r == g.rect[widget]
        new_x == IF new_pos[1] = Nothing THEN r.x ELSE new_pos[1][1]
        new_y == IF new_pos[2] = Nothing THEN r.y ELSE new_pos[2][1]
    IN  IF anchor = "nw"
        THEN [g EXCEPT !.rect[widget].x = new_x, !.rect[widget].y = new_y]
        ELSE [g EXCEPT !.rect[widget].x = new_x - r.w \div 2,
                       !.rect[widget].y = new_y - r.h \div 2]

\* Frame.manual_move_widget(widget_name, new_pos), widget_name the name of
\* the widget object `widget`.
ManualMoveWidget(g, widget, new_pos) ==
    IF \A i \in 1..Len(g.kids) : g.kids[i] # widget
    THEN [g EXCEPT !.exc = "WidgetIDError"]
    ELSE LET resize_dir == IF new_pos[1] = Nothing /\ new_pos[2] # Nothing THEN "y"
                           ELSE IF new_pos[1] # Nothing /\ new_pos[2] = Nothing THEN "x"
                           ELSE "both"
         IN  [UpdateWidgetPos([g EXCEPT !.resize_exclude[widget] = resize_dir],
                              widget, new_pos, "nw")
                 EXCEPT !.exc = "none"]

\* ScrollBar.resize_scrollbar(new_size) of the vertical ScrollBar: the
\* height of its rect is not assigned.
ResizeScrollbar(g, bar, new_size) ==
    LET g1 == [g EXCEPT !.bar_height = new_size.h,
                        !.rect[bar].x = new_size.w - BarWidth,
                        !.rect[bar].y = 0,
                        !.rect[bar].w = BarWidth,
                        !.down_button.y = new_size.h - BarWidth]
    IN  ScrollByContent(UpdateScrollbarLength(g1, bar, FALSE, TRUE), 0)

\* The resize block of Frame.update for one child.
ResizeChild(g, widget) ==
    IF WidgetClass(widget) = "ScrollBar"
    THEN ResizeScrollbar(g, widget, [w |-> g.width, h |-> g.height])
    ELSE LET scaled == <<Some(Scale(g.width, g.real_positions[widget][1], RealSize.w)),
                         Some(Scale(g.height, g.real_positions[widget][2], RealSize.h))>>
             new_pos == CASE g.resize_exclude[widget] = "x" -> <<Nothing, scaled[2]>>
                          [] g.resize_exclude[widget] = "y" -> <<scaled[1], Nothing>>
                          [] g.resize_exclude[widget] = "both" -> <<Nothing, Nothing>>
                          [] OTHER -> scaled
         IN  UpdateWidgetPos(g, widget, new_pos, "center")

\* The loop of Frame.update over child_widgets from position k on: a
\* ScrollBar is resized and updated with rel_mouse, the updates of the
\* other children move nothing.
RECURSIVE UpdateChildren(_, _, _, _, _)
UpdateChildren(g, k, rel_mouse, up_time, down_time) ==
    IF k > Len(g.kids) THEN g
    ELSE LET widget == g.kids[k]
             g1 == IF g.new_size THEN ResizeChild(g, widget) ELSE g
             g2 == IF WidgetClass(widget) = "ScrollBar"
                   THEN ScrollBarUpdate(g1, widget, rel_mouse, up_time, down_time) ELSE g1
         IN  UpdateChildren(g2, k + 1, rel_mouse, up_time, down_time)

\* Frame.update in pixels of the Frame at (0, 0) on the pointer's z_index.
GeomUpdateMouse(g, mouse, up_time, down_time) ==
    LET rel_mouse == SetPos(Copy(mouse), mouse.x, mouse.y)
        g1 == UpdateChildren(g, 1, rel_mouse, up_time, down_time)
    IN  IF g.new_size
        THEN [g1 EXCEPT !.new_size = FALSE,
                        !.resize_exclude = [w \in Widgets |-> "none"]]
        ELSE g1

\* Frame.update in pixels, for a pointer that has left the window.
GeomUpdate(g) == GeomUpdateMouse(g, MouseLeave(NewCursor), 1, 1)

\* The positions manual_move_widget is called with.
MovePositions == {<<Nothing, Some(40)>>, <<Some(40), Nothing>>, <<Some(40), Some(40)>>}

InitGeom == geom = GeomAddAll(NewGeom, <<Kid("b1", 10, 5), Kid("l1", 90, 130)>>)

\* ------------------------------------------ the cache file of a directory
\* The cache file is a sequence of characters.  "CR" and "LF" are the
\* carriage return and the line feed; "filetype", "path", "directory" and
\* "file" each stand for the run of letters they spell.
PathChars == {"a", ",", "\"", "CR", "LF"}

\* The characters csv.writer quotes a field for (QUOTE_MINIMAL, excel dialect).
QuotedFor == {",", "\"", "CR", "LF"}

\* The paths of the entries: one or two characters.
EntryPaths == {<<c>> : c \in PathChars} \cup {<<c, d>> : c \in PathChars, d \in PathChars}

\* What is_dir() and is_file() say of an entry.
EntryTypes == {"directory", "file", "other"}

\* The entries os.scandir yields that are followed.
MaxEntries == 2

RECURSIVE DoubleQuotes(_)
DoubleQuotes(f) ==
    IF f = <<>> THEN <<>>
    ELSE (IF Head(f) = "\"" THEN <<"\"", "\"">> ELSE <<Head(f)>>) \o DoubleQuotes(Tail(f))

\* A writer that never quotes.
WriteFieldBare(f) == f

\* csv.writer: one field.
WriteField(f) ==
    IF \E i \in 1..Len(f) : f[i] \in QuotedFor
    THEN <<"\"">> \o DoubleQuotes(f) \o <<"\"">>
    ELSE f

\* csv.DictWriter.writerow / writeheader: the two fields, lineterminator \r\n.
WriteRow(filetype, path) ==
    WriteField(filetype) \o <<",">> \o WriteField(path) \o <<"CR", "LF">>

\* The rows scan_dir_gen_cache writes for the entries from position i on.
RECURSIVE WriteEntries(_, _)
WriteEntries(listing, i) ==
    IF i > Len(listing) THEN <<>>
    ELSE (IF listing[i].type = "other" THEN <<>>
          ELSE WriteRow(<<listing[i].type>>, listing[i].path))
         \o WriteEntries(listing, i + 1)

\* scan_dir_gen_cache without an OSError: (True, directories) and the file.
ScanDirGenCache(listing) ==
    [ok |-> TRUE,
     dirs |-> [i \in 1..Len(SelectSeq(listing, LAMBDA e : e.type = "directory")) |->
                  SelectSeq(listing, LAMBDA e : e.type = "directory")[i].path],
     file |-> WriteRow(<<"filetype">>, <<"path">>) \o WriteEntries(listing, 1)]

\* The state of csv.reader: its automaton, the field and the row in
\* progress, the rows read.
NewReader == [state |-> "start_record", field |-> <<>>, fields |-> <<>>, rows |-> <<>>,
              error |-> FALSE]

\* parse_save_field
SaveField(rd) == [rd EXCEPT !.fields = Append(@, rd.field), !.field = <<>>]

\* The end of a line: the row is complete unless a quoted field goes on.
EndOfLine(rd) ==
    CASE rd.state = "in_quoted" -> rd
      [] rd.state = "start_record" ->
             [rd EXCEPT !.rows = Append(@, rd.fields), !.fields = <<>>]
      [] rd.state = "eat_crnl" ->
             [rd EXCEPT !.rows = Append(@, rd.fields), !.fields = <<>>,
                        !.state = "start_record"]
      [] OTHER ->
             [SaveField(rd) EXCEPT !.rows = Append(@, SaveField(rd).fields),
                                   !.fields = <<>>, !.state = "start_record"]

\* parse_process_char of csv.reader (excel dialect, not strict).
ProcessChar(rd, c) ==
    LET newline == c \in {"CR", "LF"}
        state == IF rd.state = "start_record" /\ ~newline THEN "start_field" ELSE rd.state
    IN  CASE state = "start_record" -> [rd EXCEPT !.state = "eat_crnl"]
          [] state = "start_field" ->
                 IF newline THEN [SaveField(rd) EXCEPT !.state = "eat_crnl"]
                 ELSE IF c = "\"" THEN [rd EXCEPT !.state = "in_quoted"]
                 ELSE IF c = "," THEN [SaveField(rd) EXCEPT !.state = "start_field"]
                 ELSE [rd EXCEPT !.field = Append(@, c), !.state = "in_field"]
          [] state = "in_field" ->
                 IF newline THEN [SaveField(rd) EXCEPT !.state = "eat_crnl"]
                 ELSE IF c = "," THEN [SaveField(rd) EXCEPT !.state = "start_field"]
                 ELSE [rd EXCEPT !.field = Append(@, c), !.state = "in_field"]
          [] state = "in_quoted" ->
                 IF c = "\"" THEN [rd EXCEPT !.state = "quote_in_quoted"]
                 ELSE [rd EXCEPT !.field = Append(@, c)]
          [] state = "quote_in_quoted" ->
                 IF c = "\"" THEN [rd EXCEPT !.field = Append(@, c), !.state = "in_quoted"]
                 ELSE IF c = "," THEN [SaveField(rd) EXCEPT !.state = "start_field"]
                 ELSE IF newline THEN [SaveField(rd) EXCEPT !.state = "eat_crnl"]
                 ELSE [rd EXCEPT !.field = Append(@, c), !.state = "in_field"]
          [] OTHER ->
                 IF newline THEN rd ELSE [rd EXCEPT !.error = TRUE]

\* csv.reader over the file opened with newline="": the characters in
\* order, a line ending after "LF", after "CR" "LF" and after a lone "CR".
RECURSIVE ReadChars(_, _, _)
ReadChars(file, i, rd) ==
    IF i > Len(file)
    THEN IF file # <<>> /\ file[Len(file)] \notin {"CR", "LF"} THEN EndOfLine(rd) ELSE rd
    ELSE LET after == ProcessChar(rd, file[i])
             ends_line == \/ file[i] = "LF"
                          \/ file[i] = "CR" /\ (i = Len(file) \/ file[i + 1] # "LF")
         IN  ReadChars(file, i + 1, IF ends_line THEN EndOfLine(after) ELSE after)

\* csv.DictReader(file, ("filetype", "path")): the rows that are not empty,
\* as entries; a missing field is None.
DictRows(file) ==
    LET rows == SelectSeq(ReadChars(file, 1, NewReader).rows, LAMBDA r : r # <<>>)
    IN  [i \in 1..Len(rows) |->
            [filetype |-> rows[i][1],
             path |-> IF Len(rows[i]) >= 2 THEN rows[i][2] ELSE <<None>>]]

\* load_from_cache: OSError when the file is missing (NoFile), StopIteration
\* when it has no header line; else the paths of the directory entries.
NoFile == <<"NoFile">>

LoadFromCache(file) ==
    IF file = NoFile \/ DictRows(file) = <<>>
    THEN [ok |-> FALSE, dirs |-> <<>>]
    ELSE LET entries == Tail(DictRows(file))
             directories == SelectSeq(entries, LAMBDA e : e.filetype = <<"directory">>)
         IN  [ok |-> TRUE, dirs |-> [i \in 1..Len(directories) |-> directories[i].path]]

\* The listings os.scandir yields: up to MaxEntries entries.
Entries == [type : EntryTypes, path : EntryPaths]

Listings == UNION {[1..n -> Entries] : n \in 0..MaxEntries}

NoCache == [op |-> "none", listing |-> <<>>, file |-> NoFile,
            scan |-> [ok |-> FALSE, dirs |-> <<>>], load |-> [ok |-> FALSE, dirs |-> <<>>],
            put |-> [ok |-> FALSE, dirs |-> <<>>]]

\* ------------------------------------------------- Storage.ScoreDB
\* The fetches of one ScoreDB object that are followed.
MaxFetches == 2

\* What scoreboard.csv is when a fetch looks at it: not there, of zero
\* length, the header line alone, the header and a score, there but not to
\* be opened (open raises OSError), and bytes that are not UTF-8 (reading
\* raises UnicodeDecodeError, a ValueError).
FileStates == {"missing", "empty", "header", "rows", "denied", "garbled"}

\* list(reader) once the header is skipped.
CsvData(file) == IF file = "rows" THEN <<"score">> ELSE <<>>

\* get_data has returned no item: it was not called, or it returned None.
NoItem == [status |-> "none", data |-> None, fetch |-> 0]

\* ScoreDB.__init__: no thread, an empty queue; the file and the directory
\* are what the game left.  fetches counts the fetches started, got is what
\* the last get_data returned and blocked notes a get_data that waits on
\* an empty queue.
NewScoreDB ==
    [file |-> "rows", writable |-> TRUE, io_thread |-> "none", data_queue |-> <<>>,
     fetches |-> 0, got |-> NoItem, blocked |-> FALSE, op |-> "none"]

\* ScoreDB.write_config_file: the file it leaves and the value it returns.
WriteConfigFile(file, writable) ==
    IF writable THEN [file |-> "header", ret |-> TRUE] ELSE [file |-> file, ret |-> FALSE]

\* An item of data_queue: (status, data), noted with the fetch it is from.
Item(status, data, n) == [status |-> status, data |-> data, fetch |-> n]

\* The start of ScoreDB.fetch_scores: the file is made when it is not
\* there; when it cannot be made, (SUCCESS, []) is put and the method goes
\* on.
FetchCreate(file, writable, n) ==
    IF file # "missing" THEN [file |-> file, puts |-> <<>>]
    ELSE IF WriteConfigFile(file, writable).ret
    THEN [file |-> WriteConfigFile(file, writable).file, puts |-> <<>>]
    ELSE [file |-> file, puts |-> <<Item("SUCCESS", <<>>, n)>>]

\* The try block of ScoreDB.fetch_scores on the file: the file it leaves
\* and the items it puts.  FileNotFoundError and PermissionError are
\* OSErrors; UnicodeDecodeError is caught nowhere and ends the thread.
FetchRead(file, writable, n) ==
    CASE file \in {"missing", "denied"} ->
            [file |-> file, puts |-> <<Item("ERROR", None, n)>>]
      [] file = "garbled" -> [file |-> file, puts |-> <<>>]
      [] file = "empty" ->
            [file |-> WriteConfigFile(file, writable).file,
             puts |-> IF WriteConfigFile(file, writable).ret
                      THEN <<Item("SUCCESS", <<>>, n)>>
                      ELSE <<Item("ERROR", None, n)>>]
      [] OTHER -> [file |-> file, puts |-> <<Item("SUCCESS", CsvData(file), n)>>]

\* ScoreDB.fetch_scores, from what its start left.
FetchFrom(created, writable, n) ==
    [file |-> FetchRead(created.file, writable, n).file,
     puts |-> created.puts \o FetchRead(created.file, writable, n).puts]

\* ScoreDB.fetch_scores, the run of the thread.
FetchScores ==
    /\ score_db.io_thread = "run"
    /\ score_db' = [score_db EXCEPT
          !.file = FetchFrom(FetchCreate(score_db.file, score_db.writable, score_db.fetches),
                             score_db.writable, score_db.fetches).file,
          !.data_queue = @ \o FetchFrom(FetchCreate(score_db.file, score_db.writable,
                                                    score_db.fetches),
                                        score_db.writable, score_db.fetches).puts,
          !.io_thread = "dead",
          !.op = "fetch_scores"]
    /\ UNCHANGED <<treeVars, cleanVars, frameVars, ptrVars, geom, cache, path_bound, held>>

\* ScoreDB.start_fetch_scores, called when no thread of the object runs.
StartFetchScores ==
    /\ score_db.io_thread # "run"
    /\ ~score_db.blocked
    /\ score_db.fetches < MaxFetches
    /\ score_db' = [score_db EXCEPT !.io_thread = "run", !.fetches = @ + 1,
                                    !.op = "start_fetch_scores"]
    /\ UNCHANGED <<treeVars, cleanVars, frameVars, ptrVars, geom, cache, path_bound, held>>

\* ScoreDB.get_data: None while the thread is alive, else data_queue.get(),
\* which waits for ever on an empty queue.  It is called once after a
\* fetch (Dialogs.check_record_score).
GetData ==
    /\ score_db.io_thread # "none"
    /\ ~score_db.blocked
    /\ score_db.op # "get_data"
    /\ score_db' =
          IF score_db.io_thread = "run"
          THEN [score_db EXCEPT !.got = NoItem, !.op = "get_data"]
          ELSE IF score_db.data_queue = <<>>
          THEN [score_db EXCEPT !.blocked = TRUE, !.op = "get_data"]
          ELSE [score_db EXCEPT !.got = Head(score_db.data_queue),
                                !.data_queue = Tail(@),
                                !.op = "get_data"]
    /\ UNCHANGED <<treeVars, cleanVars, frameVars, ptrVars, geom, cache, path_bound, held>>

\* The file system between two fetches: the file and whether the data
\* directory can be written change.
FileChange ==
    /\ score_db.io_thread # "run"
    /\ \E file \in FileStates, writable \in BOOLEAN :
          /\ <<file, writable>> # <<score_db.file, score_db.writable>>
          /\ score_db' = [score_db EXCEPT !.file = file, !.writable = writable]
    /\ UNCHANGED <<treeVars, cleanVars, frameVars, ptrVars, geom, cache, path_bound, held>>

\* start_path_loader holds no index.
NoHeld == [name |-> <<>>, node_index |-> 0, node |-> <<>>]

InitCache == cache = NoCache /\ path_bound = <<>> /\ held = NoHeld /\ score_db = NewScoreDB

\* ------------------------------------------------------------- Init
\* DirTree.__init__
InitDirTree ==
    /\ objs = <<DirNode(0, 0, FsRoot, TRUE, RootName)>>
    /\ nodes = <<1>>
    /\ child_widgets = {1}
    /\ schded_widgets = <<>>
    /\ schded_del_widgets = <<>>
    /\ thread_objs = [p \in Paths |-> 0]
    /\ loaders = <<>>
    /\ spawn_wait_list = <<>>
    /\ pending_nodes = <<>>
    /\ unfinished = 0
    /\ selected_path = FsRoot
    /\ safety_lock = "free"
    /\ sweep_wait = 0
    /\ sweep_buf = <<>>
    /\ clean_pc = "none"
    /\ clean_join = {}
    /\ main_pc = "sched"
    /\ exc = "none"
    /\ stale = [p \in Paths |-> FALSE]
    /\ last_call = NoCall
    /\ refreshes = 0
    /\ dir_stack = <<>>
    /\ stack_idx = <<>>
    /\ flat_idx = 0
    /\ spawn_idx = 0
    /\ updates = 0

\* The program after construction: the tree, the Frames and the pointer.
InitTree == InitDirTree /\ InitFrames /\ InitPointer /\ InitGeom /\ InitCache

\* NodeLoader(abs_path, self.path_loader_thread); started or waiting.
\* removed notes that a collapse removed a run holding a DirNode of the
\* loader's path while the loader's result was outstanding.
NodeLoader(p, pc) ==
    [path |-> p, canceled |-> FALSE, pc |-> pc, ok |-> FALSE, dirs |-> <<>>,
     cache_read |-> "none", removed |-> FALSE]

\* The tree once the listing of the root has been loaded and shown: the
\* state InitTree leads to by a click on the root's arrow, the loader's run,
\* the next update (which drains the result) and a tick without a click.
RootLoaded ==
    /\ objs = <<[DirNode(0, 0, FsRoot, TRUE, RootName) EXCEPT !.arrow = "down"],
                DirNode(EntryHeight, 1, "a", FALSE, WName("dir", "a", 0)),
                DirNode(2 * EntryHeight, 1, "b", FALSE, WName("dir", "b", 0))>>
    /\ nodes = <<1, 2, 3>>
    /\ child_widgets = {1, 2, 3}
    /\ schded_widgets = <<>>
    /\ schded_del_widgets = <<>>
    /\ thread_objs = [p \in Paths |-> IF p = FsRoot THEN 1 ELSE 0]
    /\ loaders = <<NodeLoader(FsRoot, "done")>>
    /\ spawn_wait_list = <<>>
    /\ pending_nodes = <<>>
    /\ unfinished = 0
    /\ selected_path = FsRoot
    /\ safety_lock = "free"
    /\ sweep_wait = 1
    /\ sweep_buf = <<>>
    /\ clean_pc = "none"
    /\ clean_join = {}
    /\ main_pc = "sched"
    /\ exc = "none"
    /\ stale = [p \in Paths |-> FALSE]
    /\ last_call = NoCall
    /\ refreshes = 0
    /\ dir_stack = <<>>
    /\ stack_idx = <<>>
    /\ flat_idx = 0
    /\ spawn_idx = 0
    /\ updates = 0
    /\ InitFrames
    /\ InitPointer
    /\ InitGeom
    /\ InitCache

\* ------------------------------------------------- the loader threads
\* A loader that never finds its cancel flag set.
CancelNeverSet(l) == FALSE

\* cancel.is_set() of the loader l
CancelIsSet(l) == loaders[l].canceled

\* DirTree.path_loader_thread up to the test of the cancel flag: the scan
\* ends with the directory list or with an error, then the flag is read once.
LoaderScan(l) ==
    /\ loaders[l].pc = "run"
    /\ \E ok \in (IF loaders[l].path \in MayFail THEN BOOLEAN ELSE {TRUE}) :
          loaders' = [loaders EXCEPT
              ![l].ok = ok /\ ~CancelIsSet(l),
              ![l].dirs = IF ok /\ ~CancelIsSet(l)
                          THEN ScanDir(loaders[l].path) ELSE <<>>,
              ![l].pc = IF CancelIsSet(l) THEN "done" ELSE "put"]
    /\ UNCHANGED <<nodes, objs, child_widgets, schded_widgets, schded_del_widgets,
                   thread_objs, spawn_wait_list, pending_nodes, unfinished,
                   selected_path, safety_lock, sweep_wait, sweep_buf, clean_pc,
                   clean_join, main_pc, exc, stale, last_call>>
    /\ UNCHANGED cleanVars
    /\ UNCHANGED uiVars

\* The cache file of the loader's path exists: an earlier loader of the path
\* has scanned it.  The directories whose scan may fail are followed without
\* a cache file.
IsCached(l) ==
    /\ loaders[l].path \notin MayFail
    /\ \E k \in 1..(l - 1) :
          loaders[k].path = loaders[l].path /\ loaders[k].pc \in {"put", "done"}

\* path_loader_thread when the cache file exists: load_from_cache, and
\* scan_dir_gen_cache when the load fails (OSError, StopIteration).
\* cache_read notes how the load went.
LoaderCache(l) ==
    /\ loaders[l].pc = "run"
    /\ IsCached(l)
    /\ \E got_data \in BOOLEAN :
          loaders' = [loaders EXCEPT
              ![l].ok = ~CancelIsSet(l),
              ![l].dirs = IF ~CancelIsSet(l) THEN ScanDir(loaders[l].path) ELSE <<>>,
              ![l].cache_read = IF CancelIsSet(l) THEN "none"
                                ELSE IF got_data THEN "ok" ELSE "failed",
              ![l].pc = IF CancelIsSet(l) THEN "done" ELSE "put"]
    /\ UNCHANGED <<nodes, objs, child_widgets, schded_widgets, schded_del_widgets,
                   thread_objs, spawn_wait_list, pending_nodes, unfinished,
                   selected_path, safety_lock, sweep_wait, sweep_buf, clean_pc,
                   clean_join, main_pc, exc, stale, last_call>>
    /\ UNCHANGED cleanVars
    /\ UNCHANGED uiVars

\* A queue that hands out the newest item first.
QueuePutFirst(q, item) == <<item>> \o q

\* queue.Queue.put: first in, first out.
QueuePut(q, item) == Append(q, item)

\* self.pending_nodes.put((abs_path, dir_data if got_data else None)); the
\* item is noted with the loader it comes from.
LoaderPut(l) ==
    /\ loaders[l].pc = "put"
    /\ loaders' = [loaders EXCEPT ![l].pc = "done", ![l].ok = FALSE, ![l].dirs = <<>>,
                                  ![l].cache_read = "none"]
    /\ pending_nodes' = QueuePut(pending_nodes,
          [path |-> loaders[l].path, ok |-> loaders[l].ok, dirs |-> loaders[l].dirs,
           by |-> l])
    /\ unfinished' = unfinished + 1
    /\ UNCHANGED <<nodes, objs, child_widgets, schded_widgets, schded_del_widgets,
                   thread_objs, spawn_wait_list, selected_path, safety_lock,
                   sweep_wait, sweep_buf, clean_pc, clean_join, main_pc, exc,
                   stale, last_call>>
    /\ UNCHANGED cleanVars
    /\ UNCHANGED uiVars

\* --------------------------------------------------- the sweep thread
\* DirTree.run_del_nodes, first half: take safety_lock and build the list of
\* the nodes that are not marked del_node.
SweepFilter ==
    /\ sweep_wait > 0
    /\ LockFree
    /\ safety_lock' = "sweep"
    /\ sweep_wait' = sweep_wait - 1
    /\ sweep_buf' = SelectSeq(nodes, LAMBDA n : ~objs[n].del)
    /\ UNCHANGED <<nodes, objs, child_widgets, schded_widgets, schded_del_widgets,
                   thread_objs, loaders, spawn_wait_list, pending_nodes, unfinished,
                   selected_path, clean_pc, clean_join, main_pc, exc, stale, last_call>>
    /\ UNCHANGED cleanVars
    /\ UNCHANGED uiVars

\* DirTree.run_del_nodes, second half: self.nodes[:] = <the list>, release.
SweepAssign ==
    /\ safety_lock = "sweep"
    /\ Store(sweep_buf, objs, child_widgets, schded_widgets, <<>>)
    /\ safety_lock' = "free"
    /\ UNCHANGED <<schded_del_widgets, thread_objs, loaders, spawn_wait_list,
                   pending_nodes, unfinished, selected_path, sweep_wait, clean_pc,
                   clean_join, main_pc, exc, stale, last_call>>
    /\ UNCHANGED cleanVars
    /\ UNCHANGED uiVars

\* ------------------------------------- the main thread: DirTree.update
\* Frame.add_widget for the scheduled widgets in order; stops at the first
\* name that is already a key (FrameError), that widget being popped already.
RECURSIVE AddSched(_, _)
AddSched(cw, sw) ==
    IF sw = <<>> THEN [cw |-> cw, rest |-> <<>>, ok |-> TRUE]
    ELSE IF objs[Head(sw)].name \in WidgetNames(cw)
         THEN [cw |-> cw, rest |-> Tail(sw), ok |-> FALSE]
         ELSE AddSched(cw \cup {Head(sw)}, Tail(sw))

\* DirTree.run_schded_tasks
RunSchdedTasks ==
    /\ main_pc = "sched"
    /\ LET added == AddSched(child_widgets, schded_widgets)
       IN  IF added.ok
           THEN /\ Store(nodes, objs,
                         {w \in added.cw : objs[w].name \notin SeqToSet(schded_del_widgets)},
                         <<>>, sweep_buf)
                /\ schded_del_widgets' = <<>>
                /\ sweep_wait' = IF CleanAlive THEN sweep_wait
                                 ELSE IF sweep_wait < MaxSweeps THEN sweep_wait + 1 ELSE sweep_wait
                /\ main_pc' = "drain"
                /\ exc' = exc
           ELSE /\ Store(nodes, objs, added.cw, added.rest, sweep_buf)
                /\ UNCHANGED <<schded_del_widgets, sweep_wait>>
                /\ main_pc' = "crashed"
                /\ exc' = "FrameError"
    /\ last_call' = NoCall
    /\ UNCHANGED <<thread_objs, loaders, spawn_wait_list, pending_nodes,
                   unfinished, selected_path, safety_lock, clean_pc,
                   clean_join, stale>>
    /\ updates' = IF clean_pc = "none" THEN updates ELSE updates + 1
    /\ UNCHANGED <<refreshes, dir_stack, stack_idx, flat_idx, spawn_idx>>
    /\ UNCHANGED uiVars

\* The DirNodes add_pending_nodes builds for dirs[k..], each named by
\* get_free_id against the keys at that moment; ids follow on from `base`.
RECURSIVE NewDirNodes(_, _, _, _, _)
NewDirNodes(dirs, k, parent_y, lvl, names) ==
    IF k > Len(dirs) THEN <<>>
    ELSE LET nm == GetFreeId("dir", dirs[k], names)
         IN  <<DirNode(parent_y + k * EntryHeight, lvl, dirs[k], FALSE, nm)>>
             \o NewDirNodes(dirs, k + 1, parent_y, lvl, names \cup {nm})

\* DirTree.add_pending_nodes, one pass of its loop: one queued item.
AddPendingNode ==
    /\ main_pc = "drain"
    /\ pending_nodes # <<>>
    /\ LET item == Head(pending_nodes)
           parent_index == LocateNodeObj(item.path)
           load_index == parent_index + 1
           parent_obj == objs[nodes[parent_index]]
           load_id == nodes[load_index]
           k == Len(item.dirs)
           shifted == ShiftY(objs, nodes, load_index + 1, (k - 1) * EntryHeight)
           fresh == NewDirNodes(item.dirs, 1, parent_obj.y, parent_obj.lvl + 1,
                                WidgetNames(child_widgets) \ {objs[load_id].name})
           ids == [i \in 1..k |-> Len(objs) + i]
       IN  /\ pending_nodes' = Tail(pending_nodes)
           /\ IF parent_index = 0
              THEN \* the node is gone or marked deleted: skip
                   /\ unfinished' = unfinished - 1
                   /\ last_call' = [mode |-> "drain", path |-> item.path, ret |-> FALSE,
                                    stale |-> stale[item.path]]
                   /\ UNCHANGED <<nodes, objs, child_widgets, schded_widgets, sweep_buf,
                                  main_pc, exc>>
              ELSE IF load_index > Len(nodes)
              THEN \* self.nodes[load_index] raises IndexError
                   /\ main_pc' = "crashed"
                   /\ exc' = "IndexError"
                   /\ last_call' = [mode |-> "drain", path |-> item.path, ret |-> FALSE,
                                    stale |-> stale[item.path]]
                   /\ UNCHANGED <<nodes, objs, child_widgets, schded_widgets, sweep_buf,
                                  unfinished>>
              ELSE IF objs[load_id].kind # "text"
              THEN /\ unfinished' = unfinished - 1
                   /\ last_call' = [mode |-> "drain", path |-> item.path, ret |-> FALSE,
                                    stale |-> stale[item.path]]
                   /\ UNCHANGED <<nodes, objs, child_widgets, schded_widgets, sweep_buf,
                                  main_pc, exc>>
              ELSE IF ~item.ok
              THEN /\ objs' = [objs EXCEPT ![load_id].text = "Error"]
                   /\ unfinished' = unfinished - 1
                   /\ last_call' = [mode |-> "drain", path |-> item.path, ret |-> FALSE,
                                    stale |-> stale[item.path]]
                   /\ UNCHANGED <<nodes, child_widgets, schded_widgets, sweep_buf,
                                  main_pc, exc>>
              ELSE IF objs[load_id].name \notin WidgetNames(child_widgets)
              THEN \* the later nodes are shifted, then delete_widget raises
                   /\ objs' = shifted
                   /\ main_pc' = "crashed"
                   /\ exc' = "WidgetIDError"
                   /\ last_call' = [mode |-> "drain", path |-> item.path, ret |-> FALSE,
                                    stale |-> stale[item.path]]
                   /\ UNCHANGED <<nodes, child_widgets, schded_widgets, sweep_buf,
                                  unfinished>>
              ELSE /\ Store(ReplaceSlice(nodes, load_index, load_index, ids),
                            shifted \o fresh,
                            {w \in child_widgets : objs[w].name # objs[load_id].name}
                               \cup SeqToSet(ids),
                            schded_widgets, sweep_buf)
                   /\ unfinished' = unfinished - 1
                   /\ last_call' = [mode |-> "drain", path |-> item.path, ret |-> k > 0,
                                    stale |-> stale[item.path]]
                   /\ UNCHANGED <<main_pc, exc>>
    /\ UNCHANGED <<schded_del_widgets, thread_objs, loaders, spawn_wait_list,
                   selected_path, safety_lock, sweep_wait, clean_pc, clean_join, stale>>
    /\ UNCHANGED cleanVars
    /\ UNCHANGED uiVars

\* DirTree.add_pending_nodes: queue.Empty ends the loop; Frame.update follows.
DrainDone ==
    /\ main_pc = "drain"
    /\ pending_nodes = <<>>
    /\ main_pc' = "dispatch"
    /\ last_call' = NoCall
    /\ UNCHANGED <<nodes, objs, child_widgets, schded_widgets, schded_del_widgets,
                   thread_objs, loaders, spawn_wait_list, pending_nodes, unfinished,
                   selected_path, safety_lock, sweep_wait, sweep_buf, clean_pc,
                   clean_join, exc, stale>>
    /\ UNCHANGED cleanVars
    /\ UNCHANGED uiVars

\* The first index after parent_index whose nest level is not above
\* parent_lvl (the `while` of the collapse branch), Len + 1 if there is none.
RunEnd(parent_index, parent_lvl) ==
    LET stops == {k \in (parent_index + 1)..Len(nodes) : objs[nodes[k]].lvl <= parent_lvl}
    IN  IF stops = {} THEN Len(nodes) + 1 ELSE Min(stops)

\* DirTree.start_path_loader("expand", abs_path), called by the DirNode w
\* whose arrow was clicked; on False the node sets its arrow back.  to1 is
\* thread_objs after clean_threads, node_index what locate_node_obj returned.
ExpandAt(w, abs_path, to1, node_index) ==
    LET node_obj == objs[nodes[node_index]]
        shifted == ShiftY(objs, nodes, node_index + 1, EntryHeight)
        text_id == Len(objs) + 1
        text_node == TextNode(node_obj.y + EntryHeight, node_obj.lvl + 1, abs_path, "Loading...",
                              GetFreeId("text", abs_path, WidgetNames(child_widgets)))
        new_thread == Len(loaders) + 1
    IN  IF node_index = 0 \/ (to1[abs_path] # 0 /\ ~loaders[to1[abs_path]].canceled)
        THEN /\ thread_objs' = to1
             /\ last_call' = [mode |-> "expand", path |-> abs_path, ret |-> FALSE, stale |-> stale[abs_path]]
             /\ UNCHANGED <<nodes, objs, schded_widgets, loaders, spawn_wait_list, stale>>
        ELSE /\ objs' = [Append(shifted, text_node) EXCEPT ![w].arrow = "down"]
             /\ nodes' = InsertAt(nodes, node_index + 1, text_id)
             /\ schded_widgets' = Append(schded_widgets, text_id)
             /\ IF CleanAlive
                THEN /\ loaders' = Append(loaders, NodeLoader(abs_path, "wait"))
                     /\ spawn_wait_list' = Append(spawn_wait_list, new_thread)
                     /\ thread_objs' = to1
                ELSE /\ loaders' = Append(loaders, NodeLoader(abs_path, "run"))
                     /\ thread_objs' = [to1 EXCEPT ![abs_path] = new_thread]
                     /\ UNCHANGED spawn_wait_list
             /\ stale' = [stale EXCEPT ![abs_path] = FALSE]
             /\ last_call' = [mode |-> "expand", path |-> abs_path, ret |-> TRUE, stale |-> stale[abs_path]]

\* start_path_loader("expand", abs_path) as one step.
Expand(w, abs_path) ==
    ExpandAt(w, abs_path, CleanThreads(thread_objs), LocateNodeObj(abs_path))

\* A collapse that leaves the selection where it is.
SelectionNeverInRun(children_idx, sel_node, index) == FALSE

\* `children_idx <= sel_node < index` of the collapse branch: the selected
\* node is one of the removed nodes.
SelectionInRun(children_idx, sel_node, index) ==
    children_idx <= sel_node /\ sel_node < index

\* DirTree.start_path_loader("collapse", abs_path), called by the DirNode w.
Collapse(w, abs_path) ==
    LET to1 == CleanThreads(thread_objs)
        parent_index == LocateNodeObj(abs_path)
        children_idx == parent_index + 1
        parent_obj == objs[nodes[parent_index]]
        index == RunEnd(parent_index, parent_obj.lvl)
        run == children_idx..(index - 1)
        sel_node == LocateNodeObj(selected_path)
        run_paths == {objs[nodes[k]].path : k \in {j \in run : objs[nodes[j]].kind = "dir"}}
        hit == (IF parent_index = 0 THEN {} ELSE {q \in run_paths : to1[q] # 0})
                  \cup (IF to1[abs_path] # 0 THEN {abs_path} ELSE {})
        canceled == [l \in 1..Len(loaders) |->
                        IF \E q \in hit : to1[q] = l
                        THEN [loaders[l] EXCEPT !.canceled = TRUE] ELSE loaders[l]]
        noted == [l \in 1..Len(loaders) |->
                     IF /\ parent_index # 0
                        /\ loaders[l].path \in run_paths
                        /\ \/ loaders[l].pc # "done"
                           \/ \E i \in 1..Len(pending_nodes) : pending_nodes[i].by = l
                     THEN [canceled[l] EXCEPT !.removed = TRUE] ELSE canceled[l]]
        shift_val == (children_idx - index) * EntryHeight
        marked == [i \in DOMAIN objs |->
                      IF \E k \in run : nodes[k] = i THEN [objs[i] EXCEPT !.del = TRUE]
                      ELSE objs[i]]
        moved == ShiftY(marked, nodes, index, shift_val)
        sel_moves == SelectionInRun(children_idx, sel_node, index)
    IN  /\ thread_objs' = to1
        /\ loaders' = noted
        /\ IF parent_index = 0
           THEN /\ last_call' = [mode |-> "collapse", path |-> abs_path, ret |-> FALSE, stale |-> stale[abs_path]]
                /\ UNCHANGED <<nodes, objs, schded_del_widgets, selected_path, stale>>
           ELSE /\ objs' = [i \in DOMAIN objs |->
                              IF i = w THEN [moved[i] EXCEPT
                                                !.arrow = "right",
                                                !.sel = IF sel_moves /\ i = nodes[parent_index]
                                                        THEN TRUE ELSE @]
                              ELSE IF sel_moves /\ i = nodes[parent_index]
                                   THEN [moved[i] EXCEPT !.sel = TRUE]
                                   ELSE moved[i]]
                /\ schded_del_widgets' =
                      SchdDelW(schded_del_widgets,
                               [k \in 1..(index - children_idx) |->
                                   objs[nodes[children_idx + k - 1]].name])
                /\ selected_path' = IF sel_moves THEN parent_obj.path ELSE selected_path
                /\ stale' = [q \in Paths |->
                                IF (q = abs_path \/ q \in run_paths) /\ Outstanding(q)
                                THEN TRUE ELSE stale[q]]
                /\ last_call' = [mode |-> "collapse", path |-> abs_path, ret |-> TRUE, stale |-> stale[abs_path]]
                /\ UNCHANGED nodes
        /\ UNCHANGED <<schded_widgets, spawn_wait_list>>

\* DirNode.update when its arrow is clicked: NodeButton.update flips the
\* direction, the new direction selects the mode, and a False answer flips
\* it back.  The node is a child widget of the tree, so it is dispatched.
ClickArrow(w) ==
    /\ main_pc = "dispatch"
    /\ w \in child_widgets
    /\ objs[w].kind = "dir"
    /\ IF objs[w].arrow = "right"
       THEN Len(loaders) < MaxLoaders /\ Expand(w, objs[w].path)
       ELSE Collapse(w, objs[w].path)
    /\ main_pc' = "sched"
    /\ UNCHANGED <<child_widgets, pending_nodes, unfinished, safety_lock, sweep_wait,
                   sweep_buf, clean_pc, clean_join, exc>>
    /\ (objs[w].arrow = "right" => UNCHANGED <<schded_del_widgets, selected_path>>)
    /\ UNCHANGED cleanVars
    /\ UNCHANGED uiVars

\* An expand of abs_path is accepted: the node is found and no loader of
\* the path that is not cancelled is registered.
ExpandAccepted(abs_path) ==
    LET to1 == CleanThreads(thread_objs)
    IN  /\ LocateNodeObj(abs_path) # 0
        /\ ~(to1[abs_path] # 0 /\ ~loaders[to1[abs_path]].canceled)

\* start_path_loader("expand", abs_path) of the DirNode w up to the point
\* where locate_node_obj has returned and the guard has let the call pass:
\* the main thread holds node_index and takes no lock, so the other threads
\* may run before it goes on.
ExpandLocate(w) ==
    /\ main_pc = "dispatch"
    /\ w \in child_widgets
    /\ objs[w].kind = "dir"
    /\ objs[w].arrow = "right"
    /\ Len(loaders) < MaxLoaders
    /\ ExpandAccepted(objs[w].path)
    /\ thread_objs' = CleanThreads(thread_objs)
    /\ held' = [name |-> objs[w].name,
                node_index |-> LocateNodeObj(objs[w].path),
                node |-> objs[nodes[LocateNodeObj(objs[w].path)]].name]
    /\ main_pc' = "located"
    /\ UNCHANGED <<nodes, objs, child_widgets, schded_widgets, schded_del_widgets,
                   loaders, spawn_wait_list, pending_nodes, unfinished, selected_path,
                   safety_lock, sweep_wait, sweep_buf, clean_pc, clean_join, exc,
                   stale, last_call>>
    /\ UNCHANGED cleanVars
    /\ UNCHANGED <<frameVars, ptrVars, geom, cache, path_bound, score_db>>

\* The rest of that call: node_obj = self.nodes[node_index], the shift of
\* the later nodes, the insert of the placeholder at node_index + 1 and the
\* loader, with the index held; an index past the end raises IndexError.
ExpandInsert ==
    /\ main_pc = "located"
    /\ LET w == CHOOSE i \in child_widgets : objs[i].name = held.name
       IN  IF held.node_index > Len(nodes)
           THEN /\ exc' = "IndexError"
                /\ main_pc' = "crashed"
                /\ UNCHANGED <<nodes, objs, schded_widgets, thread_objs, loaders,
                               spawn_wait_list, stale, last_call>>
           ELSE /\ ExpandAt(w, objs[w].path, thread_objs, held.node_index)
                /\ exc' = exc
                /\ main_pc' = "sched"
    /\ held' = NoHeld
    /\ UNCHANGED <<child_widgets, schded_del_widgets, pending_nodes, unfinished,
                   selected_path, safety_lock, sweep_wait, sweep_buf, clean_pc, clean_join>>
    /\ UNCHANGED cleanVars
    /\ UNCHANGED <<frameVars, ptrVars, geom, cache, path_bound, score_db>>

\* DirNode.update when a click on its label is confirmed (the button was
\* pressed and released over node_rect): the node is selected and click_func,
\* DirTree.register_selection, is called with its path.  path_binding is
\* called unless the path is the selected one; last_call notes the call.
ClickLabel(w) ==
    /\ main_pc = "dispatch"
    /\ w \in child_widgets
    /\ objs[w].kind = "dir"
    /\ Len(path_bound) < MaxSelects
    /\ LET abs_path == objs[w].path
           old_node == LocateNodeObj(selected_path)
           selected == [objs EXCEPT ![w].sel = TRUE]
       IN  IF selected_path = abs_path
           THEN /\ objs' = selected
                /\ last_call' = [mode |-> "select", path |-> abs_path, ret |-> FALSE,
                                 stale |-> FALSE]
                /\ UNCHANGED <<selected_path, path_bound>>
           ELSE /\ objs' = IF old_node # 0
                           THEN [selected EXCEPT ![nodes[old_node]].sel = FALSE]
                           ELSE selected
                /\ selected_path' = abs_path
                /\ path_bound' = Append(path_bound, abs_path)
                /\ last_call' = [mode |-> "select", path |-> abs_path, ret |-> TRUE,
                                 stale |-> FALSE]
    /\ main_pc' = "sched"
    /\ UNCHANGED <<nodes, child_widgets, schded_widgets, schded_del_widgets,
                   thread_objs, loaders, spawn_wait_list, pending_nodes, unfinished,
                   safety_lock, sweep_wait, sweep_buf, clean_pc, clean_join, exc, stale>>
    /\ UNCHANGED cleanVars
    /\ UNCHANGED <<frameVars, ptrVars, geom, cache, held, score_db>>

\* A tick in which no arrow is clicked.
NoClick ==
    /\ main_pc = "dispatch"
    /\ main_pc' = "sched"
    /\ UNCHANGED <<nodes, objs, child_widgets, schded_widgets, schded_del_widgets,
                   thread_objs, loaders, spawn_wait_list, pending_nodes, unfinished,
                   selected_path, safety_lock, sweep_wait, sweep_buf, clean_pc,
                   clean_join, exc, stale, last_call>>
    /\ UNCHANGED cleanVars
    /\ UNCHANGED uiVars

\* ------------------------------------------------- the refresh thread
\* scan_dir_no_errs: the directory list, or the empty list on an error.
ScanNoErrs(p) == IF p \in MayFail THEN {ScanDir(p), <<>>} ELSE {ScanDir(p)}

\* DirTree.refresh, called by the refresh button on the main thread between
\* two updates of the tree: it returns at once while a refresh thread is
\* alive, and starts one otherwise.  last_call notes the call and whether a
\* thread was started.
Refresh ==
    /\ main_pc = "sched"
    /\ IF CleanAlive
       THEN /\ last_call' = [NoCall EXCEPT !.mode = "refresh"]
            /\ UNCHANGED <<refreshes, clean_pc>>
       ELSE /\ refreshes < MaxRefresh
            /\ refreshes' = refreshes + 1
            /\ clean_pc' = "start"
            /\ last_call' = [NoCall EXCEPT !.mode = "refresh", !.ret = TRUE]
    /\ UNCHANGED <<nodes, objs, child_widgets, schded_widgets, schded_del_widgets,
                   thread_objs, loaders, spawn_wait_list, pending_nodes, unfinished,
                   selected_path, safety_lock, sweep_wait, sweep_buf, clean_join,
                   main_pc, exc, stale, dir_stack, stack_idx, flat_idx,
                   spawn_idx, updates>>
    /\ UNCHANGED uiVars

\* clean_cache: `for thread in self.thread_objs.values()` takes the
\* dictionary that is bound at that moment.
CleanBegin ==
    /\ clean_pc = "start"
    /\ clean_join' = {thread_objs[p] : p \in {q \in Paths : thread_objs[q] # 0}}
    /\ clean_pc' = "join"
    /\ UNCHANGED <<nodes, objs, child_widgets, schded_widgets, schded_del_widgets,
                   thread_objs, loaders, spawn_wait_list, pending_nodes, unfinished,
                   selected_path, safety_lock, sweep_wait, sweep_buf, main_pc, exc,
                   stale, last_call, cleanVars>>
    /\ UNCHANGED uiVars

\* clean_cache: every thread.join() has returned; self.clean_threads().
CleanJoined ==
    /\ clean_pc = "join"
    /\ \A l \in clean_join : ~IsAlive(l)
    /\ thread_objs' = CleanThreads(thread_objs)
    /\ clean_join' = {}
    /\ clean_pc' = "queue_join"
    /\ UNCHANGED <<nodes, objs, child_widgets, schded_widgets, schded_del_widgets,
                   loaders, spawn_wait_list, pending_nodes, unfinished,
                   selected_path, safety_lock, sweep_wait, sweep_buf, main_pc, exc,
                   stale, last_call, cleanVars>>
    /\ UNCHANGED uiVars

\* clean_cache: self.pending_nodes.join() returns when every item that was
\* put has been marked done.
CleanQueueJoined ==
    /\ clean_pc = "queue_join"
    /\ unfinished = 0
    /\ clean_pc' = "acquire"
    /\ UNCHANGED <<nodes, objs, child_widgets, schded_widgets, schded_del_widgets,
                   thread_objs, loaders, spawn_wait_list, pending_nodes, unfinished,
                   selected_path, safety_lock, sweep_wait, sweep_buf, clean_join,
                   main_pc, exc, stale, last_call, cleanVars>>
    /\ UNCHANGED uiVars

\* clean_cache: self.safety_lock.acquire()
CleanAcquire ==
    /\ clean_pc = "acquire"
    /\ LockFree
    /\ safety_lock' = "clean"
    /\ clean_pc' = "critical"
    /\ UNCHANGED <<nodes, objs, child_widgets, schded_widgets, schded_del_widgets,
                   thread_objs, loaders, spawn_wait_list, pending_nodes, unfinished,
                   selected_path, sweep_wait, sweep_buf, clean_join, main_pc, exc,
                   stale, last_call, cleanVars>>
    /\ UNCHANGED uiVars

\* clean_cache empties the cache directory; reload_dirs up to its loop:
\* the root is scanned, and a failed scan ends reload_dirs.
ReloadBegin ==
    /\ clean_pc = "critical"
    /\ \E ds \in ScanNoErrs(FsRoot) :
          IF ds = <<>>
          THEN /\ clean_pc' = "release"
               /\ UNCHANGED <<dir_stack, stack_idx, flat_idx>>
          ELSE /\ clean_pc' = "reload"
               /\ dir_stack' = <<ds>>
               /\ stack_idx' = <<0>>
               /\ flat_idx' = 2
    /\ UNCHANGED <<nodes, objs, child_widgets, schded_widgets, schded_del_widgets,
                   thread_objs, loaders, spawn_wait_list, pending_nodes, unfinished,
                   selected_path, safety_lock, sweep_wait, sweep_buf, clean_join,
                   main_pc, exc, stale, last_call, refreshes, spawn_idx, updates>>
    /\ UNCHANGED uiVars

\* The first position from f on whose node is not at nest level lvl
\* (the inner `while` of reload_dirs), Len + 1 if there is none.
PopEnd(f, lvl) ==
    LET stops == {k \in f..Len(nodes) : objs[nodes[k]].lvl # lvl}
    IN  IF stops = {} THEN Len(nodes) + 1 ELSE Min(stops)

\* reload_dirs: one pass of its `while True` loop.
ReloadStep ==
    /\ clean_pc = "reload"
    /\ LET top == Len(dir_stack)
           ds == dir_stack[top]
           si == stack_idx[top]
           cur == objs[nodes[flat_idx]]
           nest_lvl == Len(stack_idx)
           pop_end == PopEnd(flat_idx, nest_lvl)
           pop_count == pop_end - flat_idx
           popped == {nodes[k] : k \in flat_idx..(pop_end - 1)}
           kept == SubSeq(nodes, 1, flat_idx - 1) \o SubSeq(nodes, pop_end, Len(nodes))
           abs_path == ds[si + 1]
           new_id == Len(objs) + 1
           new_node == DirNode(cur.y, Len(stack_idx), abs_path, FALSE,
                               GetFreeId("dir", abs_path, WidgetNames(child_widgets)))
           grown == InsertAt(nodes, flat_idx, new_id)
           advance == /\ stack_idx' = [stack_idx EXCEPT ![top] = si + 1]
                      /\ flat_idx' = flat_idx + 1
       IN  IF dir_stack = <<>> \/ flat_idx > Len(nodes)
           THEN /\ clean_pc' = "release"
                /\ UNCHANGED <<nodes, objs, child_widgets, schded_widgets, sweep_buf,
                               schded_del_widgets, stale, dir_stack, stack_idx, flat_idx>>
           ELSE /\ clean_pc' = clean_pc
                /\ IF ~(si < Len(ds))
                   THEN \* the level is exhausted: pop what is left of it
                        /\ Store(kept, ShiftY(objs, kept, flat_idx, -EntryHeight * pop_count),
                                 child_widgets, schded_widgets, sweep_buf)
                        /\ schded_del_widgets' =
                              SchdDelW(schded_del_widgets,
                                       [k \in 1..pop_count |-> objs[nodes[flat_idx + k - 1]].name])
                        /\ stale' = [q \in Paths |->
                                        IF Outstanding(q) /\ \E w \in popped :
                                              objs[w].kind = "dir" /\ objs[w].path = q
                                        THEN TRUE ELSE stale[q]]
                        /\ dir_stack' = SubSeq(dir_stack, 1, top - 1)
                        /\ stack_idx' = SubSeq(stack_idx, 1, top - 1)
                        /\ UNCHANGED flat_idx
                   ELSE IF cur.kind = "text"
                   THEN /\ advance
                        /\ UNCHANGED <<nodes, objs, child_widgets, schded_widgets,
                                       sweep_buf, schded_del_widgets, stale, dir_stack>>
                   ELSE IF cur.path = abs_path
                   THEN IF cur.arrow = "down"
                        THEN \E sub \in ScanNoErrs(cur.path) :
                                /\ dir_stack' = Append(dir_stack, sub)
                                /\ stack_idx' = Append([stack_idx EXCEPT ![top] = si + 1], 0)
                                /\ flat_idx' = flat_idx + 1
                                /\ UNCHANGED <<nodes, objs, child_widgets, schded_widgets,
                                               sweep_buf, schded_del_widgets, stale>>
                        ELSE /\ advance
                             /\ UNCHANGED <<nodes, objs, child_widgets, schded_widgets,
                                            sweep_buf, schded_del_widgets, stale,
                                            dir_stack>>
                   ELSE \* the expected directory is missing: insert a node for it
                        /\ nodes' = grown
                        /\ objs' = ShiftY(Append(objs, new_node), grown, flat_idx + 1, EntryHeight)
                        /\ schded_widgets' = Append(schded_widgets, new_id)
                        /\ advance
                        /\ UNCHANGED <<child_widgets, sweep_buf, schded_del_widgets,
                                       stale, dir_stack>>
    /\ UNCHANGED <<thread_objs, loaders, spawn_wait_list, pending_nodes,
                   unfinished, selected_path, safety_lock, sweep_wait,
                   clean_join, main_pc, exc, last_call, refreshes, spawn_idx, updates>>
    /\ UNCHANGED uiVars

\* clean_cache: self.safety_lock.release(); the loop over spawn_wait_list
\* starts at its first entry.
CleanRelease ==
    /\ clean_pc = "release"
    /\ safety_lock' = "free"
    /\ clean_pc' = "spawn"
    /\ spawn_idx' = 1
    /\ UNCHANGED <<nodes, objs, child_widgets, schded_widgets, schded_del_widgets,
                   thread_objs, loaders, spawn_wait_list, pending_nodes, unfinished,
                   selected_path, sweep_wait, sweep_buf, clean_join, main_pc, exc,
                   stale, last_call, refreshes, dir_stack, stack_idx, flat_idx, updates>>
    /\ UNCHANGED uiVars

\* clean_cache: one pass of `for delayed_thread in self.spawn_wait_list`; the
\* list iterator sees what the main thread has appended in the meantime.
CleanSpawn ==
    /\ clean_pc = "spawn"
    /\ IF spawn_idx <= Len(spawn_wait_list)
       THEN /\ loaders' = [loaders EXCEPT ![spawn_wait_list[spawn_idx]].pc = "run"]
            /\ thread_objs' = [thread_objs EXCEPT
                  ![loaders[spawn_wait_list[spawn_idx]].path] = spawn_wait_list[spawn_idx]]
            /\ spawn_idx' = spawn_idx + 1
            /\ clean_pc' = clean_pc
       ELSE /\ clean_pc' = "clear"
            /\ spawn_idx' = 0
            /\ UNCHANGED <<loaders, thread_objs>>
    /\ UNCHANGED <<nodes, objs, child_widgets, schded_widgets, schded_del_widgets,
                   spawn_wait_list, pending_nodes, unfinished, selected_path,
                   safety_lock, sweep_wait, sweep_buf, clean_join, main_pc, exc,
                   stale, last_call, refreshes, dir_stack, stack_idx, flat_idx, updates>>
    /\ UNCHANGED uiVars

\* clean_cache: self.spawn_wait_list.clear()
CleanClear ==
    /\ clean_pc = "clear"
    /\ spawn_wait_list' = <<>>
    /\ clean_pc' = "exit"
    /\ UNCHANGED <<nodes, objs, child_widgets, schded_widgets, schded_del_widgets,
                   thread_objs, loaders, pending_nodes, unfinished, selected_path,
                   safety_lock, sweep_wait, sweep_buf, clean_join, main_pc, exc,
                   stale, last_call, cleanVars>>
    /\ UNCHANGED uiVars

\* clean_cache returns and the refresh thread is no longer alive.
CleanExit ==
    /\ clean_pc = "exit"
    /\ clean_pc' = "dead"
    /\ dir_stack' = <<>>
    /\ stack_idx' = <<>>
    /\ flat_idx' = 0
    /\ UNCHANGED <<nodes, objs, child_widgets, schded_widgets, schded_del_widgets,
                   thread_objs, loaders, spawn_wait_list, pending_nodes, unfinished,
                   selected_path, safety_lock, sweep_wait, sweep_buf, clean_join,
                   main_pc, exc, stale, last_call, refreshes, spawn_idx, updates>>
    /\ UNCHANGED uiVars

\* ------------------------------------------------------- the shutdown
\* The main loop ends between two ticks (the window was closed): the
\* interpreter begins to exit.
Quit ==
    /\ main_pc = "sched"
    /\ exc = "none"
    /\ main_pc' = "shutdown"
    /\ UNCHANGED <<nodes, objs, child_widgets, schded_widgets, schded_del_widgets,
                   thread_objs, loaders, spawn_wait_list, pending_nodes, unfinished, selected_path, safety_lock,
                   sweep_wait, sweep_buf, clean_pc, clean_join, exc,
                   stale, last_call>>
    /\ UNCHANGED cleanVars
    /\ UNCHANGED uiVars

\* The interpreter has waited for the threads that are not daemons (the
\* loaders, the sweep threads), and the exit hook clean_cache() begins on the
\* main thread: its thread.join() calls return at once, self.clean_threads().
ExitHookBegin ==
    /\ main_pc = "shutdown"
    /\ \A l \in 1..Len(loaders) : ~IsAlive(l)
    /\ sweep_wait = 0 /\ safety_lock = "free"
    /\ ~CleanAlive
    /\ thread_objs' = CleanThreads(thread_objs)
    /\ main_pc' = "exit_queue_join"
    /\ UNCHANGED <<nodes, objs, child_widgets, schded_widgets, schded_del_widgets,
                   loaders, spawn_wait_list, pending_nodes, unfinished, selected_path, safety_lock,
                   sweep_wait, sweep_buf, clean_pc, clean_join, exc,
                   stale, last_call>>
    /\ UNCHANGED cleanVars
    /\ UNCHANGED uiVars

\* The exit hook: self.pending_nodes.join() returns when every item that was
\* put has been marked done.
ExitQueueJoined ==
    /\ main_pc = "exit_queue_join"
    /\ unfinished = 0
    /\ main_pc' = "exit_acquire"
    /\ UNCHANGED <<nodes, objs, child_widgets, schded_widgets, schded_del_widgets,
                   thread_objs, loaders, spawn_wait_list, pending_nodes, unfinished, selected_path, safety_lock,
                   sweep_wait, sweep_buf, clean_pc, clean_join, exc,
                   stale, last_call>>
    /\ UNCHANGED cleanVars
    /\ UNCHANGED uiVars

\* The exit hook: self.safety_lock.acquire()
ExitAcquire ==
    /\ main_pc = "exit_acquire"
    /\ LockFree
    /\ safety_lock' = "exit"
    /\ main_pc' = "exit_critical"
    /\ UNCHANGED <<nodes, objs, child_widgets, schded_widgets, schded_del_widgets,
                   thread_objs, loaders, spawn_wait_list, pending_nodes, unfinished, selected_path,
                   sweep_wait, sweep_buf, clean_pc, clean_join, exc,
                   stale, last_call>>
    /\ UNCHANGED cleanVars
    /\ UNCHANGED uiVars

\* The exit hook: rmtree(self.cache_path), self.safety_lock.release().
ExitRmtree ==
    /\ main_pc = "exit_critical"
    /\ safety_lock' = "free"
    /\ main_pc' = "exit_spawn"
    /\ UNCHANGED <<nodes, objs, child_widgets, schded_widgets, schded_del_widgets,
                   thread_objs, loaders, spawn_wait_list, pending_nodes, unfinished, selected_path,
                   sweep_wait, sweep_buf, clean_pc, clean_join, exc,
                   stale, last_call>>
    /\ UNCHANGED cleanVars
    /\ UNCHANGED uiVars

\* The exit hook: the loop over spawn_wait_list, which no other thread
\* appends to any more, and spawn_wait_list.clear(); clean_cache returns.
ExitSpawn ==
    /\ main_pc = "exit_spawn"
    /\ loaders' = [l \in 1..Len(loaders) |->
                      IF \E i \in 1..Len(spawn_wait_list) : spawn_wait_list[i] = l
                      THEN [loaders[l] EXCEPT !.pc = "run"] ELSE loaders[l]]
    /\ thread_objs' = [q \in Paths |->
                          LET late == {i \in 1..Len(spawn_wait_list) :
                                          loaders[spawn_wait_list[i]].path = q}
                          IN  IF late = {} THEN thread_objs[q]
                              ELSE spawn_wait_list[Max(late)]]
    /\ spawn_wait_list' = <<>>
    /\ main_pc' = "exited"
    /\ UNCHANGED <<nodes, objs, child_widgets, schded_widgets, schded_del_widgets,
                   pending_nodes, unfinished, selected_path, safety_lock, sweep_wait,
                   sweep_buf, clean_pc, clean_join, exc,
                   stale, last_call>>
    /\ UNCHANGED cleanVars
    /\ UNCHANGED uiVars

\* ------------------------------------------------ the Frame methods
\* The state (frames, parent) with no exception raised.
FrameState == [frames |-> frames, parent |-> parent, exc |-> "none"]

\* Frame.add_widget(widget_obj) of Frame f for a widget.
AddWidget(f, w) ==
    LET st == AddOne(FrameState, f, w)
    IN  /\ fcall.n < MaxCalls
        /\ frames' = st.frames
        /\ parent' = st.parent
        /\ fcall' = [op |-> "add", frame |-> f, arg |-> w, exc |-> st.exc, n |-> fcall.n + 1]
        /\ UNCHANGED <<sideVars, treeVars, cleanVars, ptrVars>>

\* Frame.add_widget(widget_obj) of Frame f for a RadioGroup.
AddGroup(f, g) ==
    LET st == AddAll(FrameState, f, GetChildren(g))
    IN  /\ fcall.n < MaxCalls
        /\ frames' = st.frames
        /\ parent' = st.parent
        /\ fcall' = [op |-> "add_group", frame |-> f, arg |-> g, exc |-> st.exc, n |-> fcall.n + 1]
        /\ UNCHANGED <<sideVars, treeVars, cleanVars, ptrVars>>

\* Frame.delete_widget(widget_id) of Frame f.
DeleteWidget(f, widget_id) ==
    LET st == DeleteOne(FrameState, f, widget_id)
    IN  /\ fcall.n < MaxCalls
        /\ frames' = st.frames
        /\ parent' = st.parent
        /\ fcall' = [op |-> "delete", frame |-> f, arg |-> widget_id, exc |-> st.exc, n |-> fcall.n + 1]
        /\ UNCHANGED <<sideVars, treeVars, cleanVars, ptrVars>>

\* ------------------------------------------------------ Frame.update
\* A raise_widget_layer that leaves the render order as it is.
LeaveWidgetLayer(order, widget_name) == order

\* Frame.raise_widget_layer on the render order `order`, for a name in it.
RaiseWidgetLayer(order, widget_name) ==
    LET index == Min({i \in 1..Len(order) : order[i] = widget_name})
    IN  IF index < Len(order)
        THEN Append(SubSeq(order, 1, index - 1) \o SubSeq(order, index + 1, Len(order)),
                    widget_name)
        ELSE order

\* Frame.raise_widget_layer(widget_name) of Frame f, on the state st.
RaiseOne(st, f, widget_name) ==
    IF \E i \in 1..Len(st.frames[f].render_z_order) :
          st.frames[f].render_z_order[i] = widget_name
    THEN [st EXCEPT !.frames[f].render_z_order = RaiseWidgetLayer(@, widget_name)]
    ELSE [st EXCEPT !.exc = "WidgetIDError"]

\* frame.raise_widget_layer(widget_name)
RaiseWidgetLayerCall(f, widget_name) ==
    LET st == RaiseOne(FrameState, f, widget_name)
    IN  /\ fcall.n < MaxCalls
        /\ frames' = st.frames
        /\ parent' = st.parent
        /\ fcall' = [op |-> "raise", frame |-> f, arg |-> widget_name, exc |-> st.exc,
                     n |-> fcall.n + 1]
        /\ UNCHANGED <<sideVars, treeVars, cleanVars, ptrVars>>

\* The loop of Frame.update over scrollbar_names from position k on: every
\* bar met is raised, and the loop ends at the first the pointer is over.
RECURSIVE ScrollbarLoop(_, _, _, _)
ScrollbarLoop(fr, order, k, rel_mouse) ==
    IF k > Len(fr.scrollbar_names) THEN [order |-> order, mouse_blocked |-> FALSE]
    ELSE LET w_name == fr.scrollbar_names[k]
             raised == RaiseWidgetLayer(order, w_name)
         IN  IF MouseColliding(ChildObj(fr, w_name), rel_mouse)
             THEN [order |-> raised, mouse_blocked |-> TRUE]
             ELSE ScrollbarLoop(fr, raised, k + 1, rel_mouse)

\* A Frame that looks at its bounds alone, whatever the counter says.
PointerInBounds(f, c) == CollidePoint(FrameRect(f), c.x, c.y)

\* pointer_events: the Frame treats the pointer c as live.
PointerEvents(f, c) ==
    /\ ZIndex(f) = c.z_index
    /\ CollidePoint(FrameRect(f), c.x, c.y)

\* The dummy pointer: Mouse.Cursor() after mouse_leave().
DummyMouse == MouseLeave(NewCursor)

\* The Cursor objects of a tick: the one of the main loop, and the two that
\* every Frame.update makes.
Refs == {MainRef} \cup ((Frames \cup InnerFrames) \X {"scrolled_rel_mouse", "rel_mouse"})

\* A Frame.update that hands on the Cursor it was given instead of a copy.
SameRef(ref, fresh) == ref

\* mouse_obj.copy(): the name is bound to a new object.
CopyRef(ref, fresh) == fresh

\* Frame.child_widgets.values(), in order.
Kids(fs, f) == IF f \in InnerFrames THEN <<"b3">> ELSE fs[f].child_widgets

\* The collision test of Frame.update for one child.
ChildCollides(w, c) == IF HasMask(w) THEN CollideMask(w, c) ELSE CollideRect(w, c)

\* AnimatedSurface.update (the size and click part) of the Button w in state b.
ButtonUpdate(b, w, c) ==
    IF ~CollideMask(w, c)
    THEN [lock |-> TRUE,
          mouse_down |-> IF ~c.buttons THEN FALSE ELSE b.mouse_down,
          size |-> "decrease",
          fired |-> FALSE]
    ELSE [lock |-> IF ~c.buttons THEN FALSE ELSE b.lock,
          mouse_down |-> IF c.buttons /\ ~b.lock THEN TRUE
                         ELSE IF ~c.buttons /\ b.mouse_down THEN FALSE
                         ELSE b.mouse_down,
          size |-> "increase",
          fired |-> ~c.buttons /\ b.mouse_down]

\* The event loop of a tick of the main loop: reset_scroll, window enter /
\* leave, button down / up, the wheel, then set_pos with the position of the
\* mouse and reset_z_index.
Events ==
    /\ tick_pc = "events"
    /\ \E win \in {"enter", "leave", "none"}, button \in {"down", "up", "none"},
          px \in 0..FrameW, py \in 0..(FrameH - 1),
          wheel \in {0, -1}, keys \in {<<>>, <<"KEYDOWN">>} :
          LET c0 == ResetScroll(mouse_obj)
              c1 == CASE win = "enter" -> MouseEnter(c0)
                      [] win = "leave" -> MouseLeave(c0)
                      [] OTHER -> c0
              c2 == CASE button = "down" -> [c1 EXCEPT !.buttons = TRUE]
                      [] button = "up" -> [c1 EXCEPT !.buttons = FALSE]
                      [] OTHER -> c1
              c3 == IF wheel # 0 THEN PushScroll(c2, wheel) ELSE c2
          IN  /\ mouse_obj' = ResetZIndex(SetPos(c3, px, py))
              /\ key_events' = keys
    /\ tick_pc' = "f1"
    /\ UNCHANGED <<handed, collide, btn, passed>>
    /\ UNCHANGED <<sideVars, treeVars, cleanVars, frameVars>>

\* The loop of Frame.update over child_widgets from position k on: the
\* collision test, then the child's update with the Cursor object srm.
RECURSIVE ChildLoop(_, _, _, _, _, _), FrameUpdate(_, _, _, _)
ChildLoop(u, f, k, srm, hit, keyboard_events) ==
    IF k > Len(Kids(u.frames, f)) THEN [u |-> u, collide |-> hit]
    ELSE LET widget == Kids(u.frames, f)[k]
             c == u.heap[srm]
             u1 == CASE WidgetClass(widget) = "Button" ->
                           IF widget \in Buttons
                           THEN [u EXCEPT !.btn[widget] = ButtonUpdate(@, widget, c)]
                           ELSE u
                      [] WidgetClass(widget) = "Frame" ->
                           FrameUpdate(u, srm, widget, keyboard_events)
                      [] OTHER -> u
         IN  ChildLoop(u1, f, k + 1, srm, hit \/ ChildCollides(widget, c), keyboard_events)

\* Frame.update(mouse_obj, keyboard_events) of Frame f, where mouse_obj is
\* the object `ref` of the heap u.heap; `keys` is the list the children get.  The update of a Button child and of
\* a Frame child is followed; a Label's is empty; a ScrollBar's and a
\* RadioButton's change no Cursor and are not followed.
FrameUpdate(u, ref, f, keyboard_events) ==
    LET mouse == u.heap[ref]
        pointer_events == PointerEvents(f, mouse)
        keys == IF ~pointer_events /\ ZIndex(f) # mouse.z_index THEN <<>> ELSE keyboard_events
        srm_new == <<f, "scrolled_rel_mouse">>
        rel_new == <<f, "rel_mouse">>
        scrolled_rel_mouse == IF pointer_events THEN CopyRef(ref, srm_new) ELSE srm_new
        rel_mouse == IF ZIndex(f) = mouse.z_index THEN CopyRef(ref, rel_new) ELSE rel_new
        h0 == [u.heap EXCEPT
                 ![srm_new] = IF pointer_events THEN Copy(mouse) ELSE DummyMouse,
                 ![rel_new] = IF ZIndex(f) = mouse.z_index THEN Copy(mouse) ELSE DummyMouse]
        h1 == IF pointer_events
              THEN [h0 EXCEPT ![scrolled_rel_mouse] =
                       SetPos(@, mouse.x - FrameRect(f).x - XScrollOffset(f),
                                 mouse.y - FrameRect(f).y - YScrollOffset(f))]
              ELSE h0
        h2 == IF ZIndex(f) = mouse.z_index
              THEN [h1 EXCEPT ![rel_mouse] =
                       SetPos(@, mouse.x - FrameRect(f).x, mouse.y - FrameRect(f).y)]
              ELSE h1
        bars == IF f \in Frames
                THEN ScrollbarLoop(u.frames[f], u.frames[f].render_z_order, 1, h2[rel_mouse])
                ELSE [order |-> <<>>, mouse_blocked |-> FALSE]
        h3 == IF bars.mouse_blocked THEN [h2 EXCEPT ![scrolled_rel_mouse] = MouseLeave(@)]
              ELSE h2
        u3 == [u EXCEPT !.heap = h3,
                        !.frames = IF f \in Frames
                                   THEN [@ EXCEPT ![f].render_z_order = bars.order] ELSE @,
                        !.handed = IF f \in Frames
                                   THEN [@ EXCEPT ![f] = h3[scrolled_rel_mouse]] ELSE @]
        done == ChildLoop(u3, f, 1, scrolled_rel_mouse, bars.mouse_blocked, keys)
        u4 == done.u
        kids == Kids(u.frames, f)
        given == {scrolled_rel_mouse : i \in {i \in 1..Len(kids) : WidgetClass(kids[i]) # "ScrollBar"}}
                   \cup {rel_mouse : i \in {i \in 1..Len(kids) : WidgetClass(kids[i]) = "ScrollBar"}}
        h5 == IF pointer_events /\ ~done.collide
              THEN [u4.heap EXCEPT ![ref] = IncrementZIndex(@)] ELSE u4.heap
    IN  [u4 EXCEPT !.heap = h5,
                   !.collide = IF f \in Frames THEN [@ EXCEPT ![f] = done.collide] ELSE @,
                   !.passed[f] = [ref |-> ref, before |-> mouse, after |-> h5[ref],
                                  given |-> given, called |-> TRUE,
                                  collide |-> done.collide,
                                  scrolled_rel_mouse |-> h3[scrolled_rel_mouse],
                                  rel_mouse |-> h3[rel_mouse],
                                  keyboard_events |-> keys,
                                  keyboard_in |-> keyboard_events]]

\* One tick's call of Frame.update(self.mouse_obj, events) of Frame f by the
\* main loop.
UpdateFrame(f) ==
    /\ tick_pc = f
    /\ LET u0 == [heap |-> [r \in Refs |-> IF r = MainRef THEN mouse_obj ELSE NewCursor],
                  frames |-> frames, handed |-> handed, collide |-> collide,
                  btn |-> btn, passed |-> passed]
           u == FrameUpdate(u0, MainRef, f, key_events)
       IN  /\ frames' = u.frames
           /\ handed' = u.handed
           /\ collide' = u.collide
           /\ btn' = u.btn
           /\ passed' = u.passed
           /\ mouse_obj' = u.heap[MainRef]
           /\ UNCHANGED key_events
    /\ tick_pc' = IF f = "f1" THEN "f2" ELSE "render"
    /\ UNCHANGED <<parent, fcall>>
    /\ UNCHANGED <<sideVars, treeVars, cleanVars>>

\* The end of the tick: the Frames are drawn and the loop starts over.
Render ==
    /\ tick_pc = "render"
    /\ tick_pc' = "events"
    /\ UNCHANGED <<mouse_obj, handed, collide, btn, passed, key_events>>
    /\ UNCHANGED <<sideVars, treeVars, cleanVars, frameVars>>

\* A call of a method of the Frame in pixels: the Frame after it, with the
\* method and its arguments noted.
GeomCall(g, op, arg) ==
    /\ geom.n < MaxCalls
    /\ geom' = [g EXCEPT !.op = op, !.arg = arg, !.n = geom.n + 1]
    /\ UNCHANGED <<treeVars, cleanVars, frameVars, ptrVars, cache, path_bound, held, score_db>>

\* frame.add_scroll_offset(amount, direction)
AddScrollOffsetCall(amount, direction) ==
    GeomCall(AddScrollOffset(geom, amount, direction), "add_scroll_offset",
             <<amount, direction>>)

\* frame.update_size(new_size)
UpdateSizeCall(new_size) ==
    GeomCall([UpdateSize(geom, new_size) EXCEPT !.ret = None, !.exc = "none"],
             "update_size", <<new_size.w, new_size.h>>)

\* frame.manual_move_widget(widget_name, new_pos)
ManualMoveWidgetCall(widget, new_pos) ==
    GeomCall([ManualMoveWidget(geom, widget, new_pos) EXCEPT !.ret = None],
             "manual_move_widget", <<widget, new_pos>>)

\* frame.update(mouse_obj, keyboard_events) of a tick
GeomUpdateCall ==
    GeomCall([GeomUpdate(geom) EXCEPT !.ret = None, !.exc = "none"], "update", <<geom.new_size>>)

\* Where the pointer is in a tick: over the content, and over the ScrollBar
\* at its up button, its track and its down button.
PointerXs == {10, 85}

PointerYs == {5, 45, 90}

\* What the timer of a ScrollButton reads, in tenths of a second.
TimerReads == {1, 3}

\* frame.update(mouse_obj, keyboard_events) of a tick with the pointer in
\* the window, on the z_index of the Frame.
PointerUpdateCall ==
    \E px \in PointerXs, py \in PointerYs, button \in BOOLEAN, wheel \in {0, -1},
       up_time \in TimerReads, down_time \in TimerReads :
        LET mouse == [NewCursor EXCEPT !.x = px, !.y = py, !.buttons = button,
                                       !.scroll_amount = wheel]
        IN  GeomCall([GeomUpdateMouse(geom, mouse, up_time, down_time)
                         EXCEPT !.ret = None, !.exc = "none"],
                     "update", <<geom.new_size, button, wheel>>)

\* frame.get_content_height()
GetContentHeightCall ==
    GeomCall([geom EXCEPT !.ret = GetContentHeight(geom), !.exc = "none"],
             "get_content_height", <<>>)

\* A call on the cache file, noted in op.
CacheCall(c, op) ==
    /\ cache' = [c EXCEPT !.op = op]
    /\ UNCHANGED <<treeVars, cleanVars, frameVars, ptrVars, geom, path_bound, held, score_db>>

\* scan_dir_gen_cache(abs_path, cache_path) over the listing of abs_path.
ScanGenCache ==
    /\ cache.op \in {"none", "load"}
    /\ LET r == ScanDirGenCache(cache.listing)
       IN  CacheCall([cache EXCEPT !.file = r.file, !.scan = [ok |-> r.ok, dirs |-> r.dirs]],
                     "scan")

\* scan_dir_gen_cache when open, scandir or an entry raises OSError: the
\* cache file is removed.
ScanFails ==
    /\ cache.op \in {"none", "load"}
    /\ CacheCall([cache EXCEPT !.file = NoFile, !.scan = [ok |-> FALSE, dirs |-> <<>>]],
                 "scan_error")

\* load_from_cache(cache_path)
LoadCache ==
    /\ cache.op # "load"
    /\ CacheCall([cache EXCEPT !.load = LoadFromCache(cache.file)], "load")

\* The cache file is changed from outside the program, or was written by
\* another version of it: the header row is missing, or one character of
\* the file is.
DamageCache ==
    /\ cache.op = "scan"
    /\ \E file \in {WriteEntries(cache.listing, 1)}
                   \cup {SubSeq(cache.file, 1, i - 1) \o SubSeq(cache.file, i + 1, Len(cache.file)) :
                            i \in 1..Len(cache.file)} :
          CacheCall([cache EXCEPT !.file = file], "damage")

\* path_loader_thread from os.path.isfile(cache_path) to the put: the cache
\* file is loaded, and the directory is scanned when the load has failed;
\* the scan writes the file anew or, on an OSError, removes it.
LoaderRead ==
    /\ cache.op \in {"scan", "damage"}
    /\ LET loaded == LoadFromCache(cache.file)
           r == ScanDirGenCache(cache.listing)
       IN  IF loaded.ok
           THEN CacheCall([cache EXCEPT !.load = loaded, !.put = loaded], "loader")
           ELSE \/ CacheCall([cache EXCEPT !.load = loaded, !.file = r.file,
                                           !.scan = [ok |-> r.ok, dirs |-> r.dirs],
                                           !.put = [ok |-> r.ok, dirs |-> r.dirs]], "loader")
                \/ CacheCall([cache EXCEPT !.load = loaded, !.file = NoFile,
                                           !.scan = [ok |-> FALSE, dirs |-> <<>>],
                                           !.put = [ok |-> FALSE, dirs |-> <<>>]], "loader")

\* ------------------------------------------------ the specifications
\* The main thread: DirTree.update, step by step.
MainStep ==
    \/ RunSchdedTasks
    \/ AddPendingNode
    \/ DrainDone
    \/ \E w \in 1..Len(objs) : ClickArrow(w)
    \/ NoClick

\* The loader threads and the sweep threads.
ThreadStep ==
    \/ \E l \in 1..Len(loaders) : LoaderScan(l)
    \/ \E l \in 1..Len(loaders) : LoaderPut(l)
    \/ SweepFilter
    \/ SweepAssign

\* The tree without the refresh button: the threads interleave with the
\* steps of the main thread in every way.
NextTree ==
    \/ MainStep
    \/ ThreadStep

SpecTree == InitTree /\ [][NextTree]_vars

\* The main thread is between two updates of the tree (or has ended).
Between == main_pc \in {"sched", "crashed"}

\* The refresh button has been clicked and reload_dirs is not under way.
MainTurn == clean_pc \notin {"none", "reload"}

\* The tree with the refresh button, from the loaded root on.  The run begins
\* with the click on the button and is followed for MaxUpdates updates.  Of
\* the interleavings, those are followed in which an update, once begun, runs
\* to its end before another thread moves, and reload_dirs likewise.
NextRefresh ==
    \/ Refresh
    \/ MainTurn /\ updates < MaxUpdates /\ RunSchdedTasks
    \/ MainTurn /\ AddPendingNode
    \/ MainTurn /\ DrainDone
    \/ \E w \in 1..Len(objs) : MainTurn /\ ClickArrow(w)
    \/ MainTurn /\ NoClick
    \/ \E l \in 1..Len(loaders) : Between /\ LoaderScan(l)
    \/ \E l \in 1..Len(loaders) : Between /\ LoaderPut(l)
    \/ Between /\ SweepFilter
    \/ Between /\ SweepAssign
    \/ Between /\ CleanBegin
    \/ Between /\ CleanJoined
    \/ Between /\ CleanQueueJoined
    \/ Between /\ CleanAcquire
    \/ Between /\ ReloadBegin
    \/ Between /\ ReloadStep
    \/ Between /\ CleanRelease
    \/ Between /\ CleanSpawn
    \/ Between /\ CleanClear
    \/ Between /\ CleanExit

SpecRefresh == RootLoaded /\ [][NextRefresh]_vars

\* reload_dirs is not under way.
NotReloading == clean_pc # "reload"

\* The tree with the refresh button clicked at any moment: arrows are
\* clicked and loaders run before the click, during the refresh and after it.
NextLateRefresh ==
    \/ Refresh
    \/ NotReloading /\ updates < MaxUpdates /\ RunSchdedTasks
    \/ NotReloading /\ AddPendingNode
    \/ NotReloading /\ DrainDone
    \/ \E w \in 1..Len(objs) :
          /\ NotReloading
          /\ objs[w].arrow = "right" => Len(loaders) < MaxSelLoaders
          /\ ClickArrow(w)
    \/ NotReloading /\ NoClick
    \/ \E l \in 1..Len(loaders) : Between /\ LoaderScan(l)
    \/ \E l \in 1..Len(loaders) : Between /\ LoaderPut(l)
    \/ Between /\ SweepFilter
    \/ Between /\ SweepAssign
    \/ Between /\ CleanBegin
    \/ Between /\ CleanJoined
    \/ Between /\ CleanQueueJoined
    \/ Between /\ CleanAcquire
    \/ Between /\ ReloadBegin
    \/ Between /\ ReloadStep
    \/ Between /\ CleanRelease
    \/ Between /\ CleanSpawn
    \/ Between /\ CleanClear
    \/ Between /\ CleanExit

SpecLateRefresh == RootLoaded /\ [][NextLateRefresh]_vars

\* The Frames alone: add_widget and delete_widget are called on either Frame
\* with any widget, RadioGroup or name, in any order.
NextFrames ==
    \/ \E f \in Frames, w \in Widgets : AddWidget(f, w)
    \/ \E f \in Frames, g \in RadioGroups : AddGroup(f, g)
    \/ \E f \in Frames, widget_id \in WidgetIds : DeleteWidget(f, widget_id)
    \/ \E f \in Frames, widget_name \in WidgetIds : RaiseWidgetLayerCall(f, widget_name)

SpecFrames == InitTree /\ [][NextFrames]_vars

\* What the first Frame holds when the ticks begin.
Layouts == {<<"b1">>, <<"b1", "l1">>, <<"b1", "l1", "s1">>, <<"n1">>, <<"b1", "n1">>}

\* The Frames after add_widget was called for the widgets ws on the first
\* Frame and for the second Button on the second.
Populated(ws) == AddAll(AddAll(NoWidgets, "f1", ws), "f2", <<"b2">>)

InitOcclusion ==
    /\ InitDirTree
    /\ InitPointer
    /\ InitGeom
    /\ InitCache
    /\ \E ws \in Layouts :
          /\ frames = Populated(ws).frames
          /\ parent = Populated(ws).parent
          /\ fcall = [op |-> "add", frame |-> "f2", arg |-> "b2", exc |-> "none",
                       n |-> Len(ws) + 1]

\* The ticks of the main loop over the two Frames: the events, the update
\* of the Frame of z_index 1, the update of the Frame of z_index 2, the end.
NextOcclusion ==
    \/ Events
    \/ \E f \in Frames : UpdateFrame(f)
    \/ Render

SpecOcclusion == InitOcclusion /\ [][NextOcclusion]_vars

\* The tree with the clicks on the labels: selection, expansion and
\* collapse, with the loader and sweep threads interleaved in every way.
NextSelect ==
    \/ RunSchdedTasks
    \/ AddPendingNode
    \/ DrainDone
    \/ \E w \in 1..Len(objs) :
          (objs[w].arrow = "right" => Len(loaders) < MaxSelLoaders) /\ ClickArrow(w)
    \/ \E w \in 1..Len(objs) : ClickLabel(w)
    \/ NoClick
    \/ \E l \in 1..Len(loaders) : LoaderScan(l)
    \/ \E l \in 1..Len(loaders) : LoaderCache(l)
    \/ \E l \in 1..Len(loaders) : LoaderPut(l)
    \/ SweepFilter
    \/ SweepAssign

SpecSelect == RootLoaded /\ [][NextSelect]_vars

\* The tree with the cache files: a loader whose path was scanned before
\* finds the cache file of the path.
NextCached ==
    \/ RunSchdedTasks
    \/ AddPendingNode
    \/ DrainDone
    \/ \E w \in 1..Len(objs) : ClickArrow(w)
    \/ NoClick
    \/ \E l \in 1..Len(loaders) : LoaderScan(l)
    \/ \E l \in 1..Len(loaders) : LoaderCache(l)
    \/ \E l \in 1..Len(loaders) : LoaderPut(l)
    \/ SweepFilter
    \/ SweepAssign

SpecCached == RootLoaded /\ [][NextCached]_vars

\* The tree while the child a of the loaded root is expanding: the state
\* RootLoaded leads to by a click on the arrow of a and the run of its
\* loader up to the put, the cancel flag read.
ChildLoading ==
    /\ objs = <<[DirNode(0, 0, FsRoot, TRUE, RootName) EXCEPT !.arrow = "down"],
                [DirNode(EntryHeight, 1, "a", FALSE, WName("dir", "a", 0))
                    EXCEPT !.arrow = "down"],
                DirNode(3 * EntryHeight, 1, "b", FALSE, WName("dir", "b", 0)),
                TextNode(2 * EntryHeight, 2, "a", "Loading...", WName("text", "a", 0))>>
    /\ nodes = <<1, 2, 4, 3>>
    /\ child_widgets = {1, 2, 3, 4}
    /\ schded_widgets = <<>>
    /\ schded_del_widgets = <<>>
    /\ thread_objs = [p \in Paths |-> IF p = "a" THEN 1 ELSE 0]
    /\ loaders = <<[NodeLoader("a", "put") EXCEPT !.ok = TRUE, !.dirs = ScanDir("a")]>>
    /\ spawn_wait_list = <<>>
    /\ pending_nodes = <<>>
    /\ unfinished = 0
    /\ selected_path = FsRoot
    /\ safety_lock = "free"
    /\ sweep_wait = 1
    /\ sweep_buf = <<>>
    /\ clean_pc = "none"
    /\ clean_join = {}
    /\ main_pc = "sched"
    /\ exc = "none"
    /\ stale = [p \in Paths |-> FALSE]
    /\ last_call = NoCall
    /\ refreshes = 0
    /\ dir_stack = <<>>
    /\ stack_idx = <<>>
    /\ flat_idx = 0
    /\ spawn_idx = 0
    /\ updates = 0
    /\ InitFrames
    /\ InitPointer
    /\ InitGeom
    /\ InitCache

\* The tree from the expansion of a child on: the ticks and the loaders,
\* before a sweep thread gets to run.
NextChild ==
    \/ RunSchdedTasks
    \/ AddPendingNode
    \/ DrainDone
    \/ \E w \in 1..Len(objs) : ClickArrow(w)
    \/ NoClick
    \/ \E l \in 1..Len(loaders) : LoaderScan(l)
    \/ \E l \in 1..Len(loaders) : LoaderPut(l)

SpecChild == ChildLoading /\ [][NextChild]_vars

\* The tree up to the end of the program: the ticks, the loader and sweep
\* threads, the end of the main loop and the exit hook.
NextShutdown ==
    \/ RunSchdedTasks
    \/ AddPendingNode
    \/ DrainDone
    \/ \E w \in 1..Len(objs) :
          (objs[w].arrow = "right" => Len(loaders) < MaxSelLoaders) /\ ClickArrow(w)
    \/ NoClick
    \/ \E l \in 1..Len(loaders) : LoaderScan(l)
    \/ \E l \in 1..Len(loaders) : LoaderPut(l)
    \/ SweepFilter
    \/ SweepAssign
    \/ Quit
    \/ ExitHookBegin
    \/ ExitQueueJoined
    \/ ExitAcquire
    \/ ExitRmtree
    \/ ExitSpawn

SpecShutdown == RootLoaded /\ [][NextShutdown]_vars

\* The steps of the loader and sweep threads, and those of the exit hook.
ThreadRuns ==
    \/ \E l \in 1..Len(loaders) : LoaderScan(l)
    \/ \E l \in 1..Len(loaders) : LoaderPut(l)
    \/ SweepFilter
    \/ SweepAssign

ShutdownRuns ==
    ExitHookBegin \/ ExitQueueJoined \/ ExitAcquire \/ ExitRmtree \/ ExitSpawn

\* Every thread that can run does run in the end, and so does the main
\* thread once it is in the exit hook.
FairShutdown == SpecShutdown /\ WF_vars(ThreadRuns) /\ WF_vars(ShutdownRuns)

\* The tree where the sweep thread may run between locate_node_obj and the
\* use of the index in an accepted expand: the main thread takes no lock.
\* A collapse, and an expand that is turned down, are one step.
NextHeld ==
    \/ RunSchdedTasks
    \/ AddPendingNode
    \/ DrainDone
    \/ \E w \in 1..Len(objs) :
          /\ objs[w].arrow = "right" => ~ExpandAccepted(objs[w].path)
          /\ ClickArrow(w)
    \/ \E w \in 1..Len(objs) : ExpandLocate(w)
    \/ ExpandInsert
    \/ NoClick
    \/ \E l \in 1..Len(loaders) : LoaderScan(l)
    \/ \E l \in 1..Len(loaders) : LoaderPut(l)
    \/ SweepFilter
    \/ SweepAssign

SpecHeld == RootLoaded /\ [][NextHeld]_vars

\* The cache file of one directory, for every listing: the scan writes it,
\* the load reads it.
InitListing ==
    /\ InitDirTree /\ InitFrames /\ InitPointer /\ InitGeom
    /\ path_bound = <<>>
    /\ held = NoHeld
    /\ score_db = NewScoreDB
    /\ \E listing \in Listings : cache = [NoCache EXCEPT !.listing = listing]

NextCache ==
    \/ ScanGenCache
    \/ ScanFails
    \/ LoadCache

SpecCache == InitListing /\ [][NextCache]_vars

\* The cache file of one directory between the scan that wrote it and a
\* loader that reads it, when the file may have been damaged in between.
NextDamaged ==
    \/ ScanGenCache
    \/ DamageCache
    \/ LoaderRead

SpecDamaged == InitListing /\ [][NextDamaged]_vars

\* The Frame in pixels under the calls of its methods, from every layout.
InitGeometry ==
    /\ InitDirTree /\ InitFrames /\ InitPointer /\ InitCache
    /\ \E ks \in GeomLayouts : geom = GeomAddAll(NewGeom, ks)

NextGeom ==
    \/ \E amount \in Amounts, direction \in Directions : AddScrollOffsetCall(amount, direction)
    \/ GetContentHeightCall
    \/ \E new_size \in Sizes : UpdateSizeCall(new_size)
    \/ \E widget \in {"b1", "l1", "h1"}, new_pos \in MovePositions :
          ManualMoveWidgetCall(widget, new_pos)
    \/ GeomUpdateCall

SpecGeom == InitGeometry /\ [][NextGeom]_vars

\* The Frame in pixels under the ticks of a pointer in the window, the
\* moves of its children and its resizes.
NextScroll ==
    \/ PointerUpdateCall
    \/ \E new_pos \in MovePositions : ManualMoveWidgetCall("l1", new_pos)
    \/ \E new_size \in Sizes : UpdateSizeCall(new_size)

SpecScroll == InitGeometry /\ [][NextScroll]_vars

\* One ScoreDB object: fetches are started, run and read while the file
\* system changes.
NextScores ==
    \/ StartFetchScores
    \/ FetchScores
    \/ GetData
    \/ FileChange

SpecScores == InitTree /\ [][NextScores]_vars


\* ------------------------------------------------------------ claims
\* The entries of nodes that are not marked del_node, in order.
LiveNodes == SelectSeq(nodes, LAMBDA n : ~objs[n].del)

\* A step of the main thread that takes one item off pending_nodes.
DrainStep == main_pc = "drain" /\ pending_nodes # <<>> /\ pending_nodes' = Tail(pending_nodes)

\* C1: the entries of nodes not marked del_node form a pre-order flattening:
\* the first is the root at level 0, every other entry has a level of at
\* least 1 that exceeds its predecessor's level by at most 1, and an entry
\* one level below its predecessor follows a DirNode (its parent).
C1_PreOrder ==
    /\ Len(LiveNodes) >= 1
    /\ LiveNodes[1] = 1 /\ objs[1].lvl = 0
    /\ \A i \in 2..Len(LiveNodes) :
          /\ objs[LiveNodes[i]].lvl >= 1
          /\ objs[LiveNodes[i]].lvl <= objs[LiveNodes[i - 1]].lvl + 1
          /\ (objs[LiveNodes[i]].lvl = objs[LiveNodes[i - 1]].lvl + 1
                => objs[LiveNodes[i - 1]].kind = "dir")

\* C6: the y position of every node not marked del_node is entry_height
\* times its index among those nodes.
C6_Layout ==
    main_pc # "crashed" =>
        \A i \in 1..Len(LiveNodes) : objs[LiveNodes[i]].y = (i - 1) * EntryHeight

\* C2: a drain step never creates child nodes under a path that was
\* collapsed while a loader result for it was outstanding, unless the path
\* was expanded again.
C2_CancelSafe ==
    [][(DrainStep /\ last_call'.ret) => ~stale[Head(pending_nodes).path]]_vars

\* C3: a drain step that pops a result of a path collapsed or removed before
\* delivery raises nothing and leaves nodes, the node objects (positions
\* included) and child_widgets unchanged.
C3_StaleDiscarded ==
    [][(DrainStep /\ stale[Head(pending_nodes).path])
          => (main_pc' # "crashed" /\ nodes' = nodes /\ objs' = objs
                /\ child_widgets' = child_widgets)]_vars

\* A step in which start_path_loader(mode, ...) is called: the click on an
\* arrow in the dispatch pass.
CallStep(mode) ==
    main_pc = "dispatch" /\ main_pc' = "sched" /\ last_call'.mode = mode

\* The node of p has its placeholder: the "Loading..." TextNode, not marked
\* del_node, directly after it.
HasPlaceholder(p) ==
    LET k == LocateNodeObj(p)
    IN  /\ k # 0
        /\ k < Len(nodes)
        /\ objs[nodes[k + 1]].kind = "text"
        /\ objs[nodes[k + 1]].text = "Loading..."
        /\ objs[nodes[k + 1]].lvl = objs[nodes[k]].lvl + 1
        /\ ~objs[nodes[k + 1]].del

\* The path p is expanding: its node has its placeholder, and a loader of p
\* that is not cancelled is running, has queued its result, or waits in
\* spawn_wait_list.
Expanding(p) ==
    /\ HasPlaceholder(p)
    /\ \E l \in 1..Len(loaders) :
        /\ loaders[l].path = p
        /\ ~loaders[l].canceled
        /\ \/ IsAlive(l)
           \/ /\ loaders[l].pc = "done"
              /\ \E i \in 1..Len(pending_nodes) : pending_nodes[i].path = p
           \/ /\ loaders[l].pc = "wait"
              /\ \E i \in 1..Len(spawn_wait_list) : spawn_wait_list[i] = l

\* C4: an expand call for a path that is expanding answers False and creates
\* neither a NodeLoader nor a TextNode; an expand call for a path without a
\* live node answers False, leaves nodes alone and registers no loader.
C4_ExpandIdempotent ==
    [][CallStep("expand") =>
          /\ Expanding(last_call'.path) =>
                (~last_call'.ret /\ loaders' = loaders /\ nodes' = nodes /\ objs' = objs)
          /\ LocateNodeObj(last_call'.path) = 0 =>
                (~last_call'.ret /\ nodes' = nodes /\ loaders' = loaders
                   /\ \A q \in Paths : thread_objs'[q] \in {0, thread_objs[q]})]_vars

\* The loaders of p that are registered in thread_objs or parked in
\* spawn_wait_list, are not cancelled and have not finished.
LiveLoaders(p) ==
    {l \in 1..Len(loaders) :
        /\ loaders[l].path = p
        /\ ~loaders[l].canceled
        /\ loaders[l].pc # "done"
        /\ \/ \E q \in Paths : thread_objs[q] = l
           \/ \E i \in 1..Len(spawn_wait_list) : spawn_wait_list[i] = l}

\* C5: for every path there is at most one NodeLoader that was created, is
\* not cancelled and has not finished, over thread_objs and spawn_wait_list.
C5_OneLoaderPerPath == \A p \in Paths : Cardinality(LiveLoaders(p)) <= 1

\* C6 (the shift of a collapse): a collapse moves every node after the
\* collapsed one that it does not remove up by entry_height times the number
\* of nodes it removes, whatever nodes marked del_node lie in between.
C6_CollapseShift ==
    [][(CallStep("collapse") /\ last_call'.ret) =>
          LET parent_index == LocateNodeObj(last_call'.path)
              removed == {w \in 1..Len(objs) : ~objs[w].del /\ objs'[w].del}
          IN  \A j \in (parent_index + 1)..Len(nodes) :
                 ~objs'[nodes[j]].del =>
                    objs'[nodes[j]].y = objs[nodes[j]].y - EntryHeight * Cardinality(removed)]_vars

\* RootLoaded is a state the tree reaches from its construction.
NotRootLoaded == ~RootLoaded

\* ------------------------------------------------- claims on Frames
\* The Frames that hold the widget w.
Holders(w) ==
    {f \in Frames : \E i \in 1..Len(frames[f].child_widgets) : frames[f].child_widgets[i] = w}

FrameErrors == {"FrameError1", "FrameError2"}

\* C7: add_widget for a widget whose name is a key of child_widgets, or that
\* has a parent, raises FrameError and leaves the four indices of every Frame
\* and every widget's parent as they were.
C7_AddRejects ==
    [][fcall'.op = "add" =>
          ((GetWidgetName(fcall'.arg) \in ChildIds(frames[fcall'.frame])
               \/ parent[fcall'.arg] # None)
             => (fcall'.exc \in FrameErrors /\ frames' = frames /\ parent' = parent))]_vars

\* A Button is turned away for its name alone: it has no parent.
C7_Witness ==
    /\ fcall.op = "add"
    /\ fcall.exc = "FrameError1"
    /\ parent[fcall.arg] = None
    /\ frames[fcall.frame].child_widgets # <<>>

\* C8: delete_widget(name) raises WidgetIDError and changes nothing when name
\* is no key of child_widgets; when it is one, name is afterwards in none of
\* child_widgets, real_positions, render_z_order and scrollbar_names, and the
\* other entries of the four indices, and the other Frames, are as before.
C8_DeleteWidget ==
    [][fcall'.op = "delete" =>
          LET f == fcall'.frame
              name == fcall'.arg
              fr == frames[f]
              fr2 == frames'[f]
          IN  IF name \notin ChildIds(fr)
              THEN fcall'.exc = "WidgetIDError" /\ frames' = frames /\ parent' = parent
              ELSE /\ fcall'.exc = "none"
                   /\ name \notin ChildIds(fr2)
                   /\ name \notin DOMAIN fr2.real_positions
                   /\ name \notin SeqToSet(fr2.render_z_order)
                   /\ name \notin SeqToSet(fr2.scrollbar_names)
                   /\ fr2.child_widgets
                        = SelectSeq(fr.child_widgets, LAMBDA w : GetWidgetName(w) # name)
                   /\ DOMAIN fr2.real_positions = (DOMAIN fr.real_positions) \ {name}
                   /\ \A m \in DOMAIN fr2.real_positions :
                         fr2.real_positions[m] = fr.real_positions[m]
                   /\ fr2.render_z_order = SelectSeq(fr.render_z_order, LAMBDA m : m # name)
                   /\ fr2.scrollbar_names
                        = SelectSeq(fr.scrollbar_names, LAMBDA m : m # name)
                   /\ \A g \in Frames \ {f} : frames'[g] = frames[g]]_vars

\* C9: no two Frames hold one widget, a Frame that holds a widget is its
\* parent, a parent once set never changes, and add_widget for a widget that
\* has a parent (a RadioGroup with such a child included) raises FrameError.
C9_OneFrame ==
    /\ [](\A w \in Widgets :
             /\ Cardinality(Holders(w)) <= 1
             /\ \A f \in Holders(w) : parent[w] = f)
    /\ [][\A w \in Widgets : parent[w] # None => parent'[w] = parent[w]]_vars
    /\ [][(fcall'.op = "add" /\ parent[fcall'.arg] # None)
             => (fcall'.exc \in FrameErrors /\ frames' = frames)]_vars
    /\ [][(fcall'.op = "add_group"
             /\ \E i \in 1..Len(GetChildren(fcall'.arg)) :
                   parent[GetChildren(fcall'.arg)[i]] # None)
             => fcall'.exc \in FrameErrors]_vars

\* A Button that was added to one Frame and deleted from it is turned away
\* by the other Frame.
C9_Witness ==
    /\ fcall.op = "add"
    /\ fcall.exc = "FrameError2"
    /\ WidgetClass(fcall.arg) = "Button"
    /\ Holders(fcall.arg) = {}
    /\ parent[fcall.arg] \notin {None, fcall.frame}

\* ---------------------------------------------- claims on the pointer
\* In this tick the button is down and the pointer is inside both Frames.
ClickInOverlap ==
    /\ mouse_obj.buttons
    /\ ~mouse_obj.leave
    /\ \A f \in Frames : CollidePoint(FrameRect(f), mouse_obj.x, mouse_obj.y)

\* The Button w reacted to the pointer in its last update.
Reacts(w) == btn[w].size = "increase" \/ btn[w].mouse_down \/ btn[w].fired

\* The Frame f was handed the has-left dummy, found no collision, and none
\* of its Buttons reacted.
Silent(f) ==
    /\ handed[f] = DummyMouse
    /\ ~collide[f]
    /\ \A w \in Buttons : (f \in Holders(w)) => ~Reacts(w)

\* C10 as stated: at the end of a tick with a click inside the overlap, the
\* pointer has stayed with the Frame of z_index 1 and the Frame of z_index 2
\* is silent.
C10_ClickStaysOnTop ==
    (tick_pc = "render" /\ ClickInOverlap) => (mouse_obj.z_index = 1 /\ Silent("f2"))

\* C10, amended: a click inside the overlap that collides with a child of
\* the Frame of z_index 1 stays with that Frame and the Frame of z_index 2 is
\* silent; a click that collides with no child of it raises the counter to 2
\* and the Frame of z_index 2 is handed the pointer itself.
C10_OcclusionGating ==
    (tick_pc = "render" /\ ClickInOverlap) =>
        IF collide["f1"]
        THEN mouse_obj.z_index = 1 /\ Silent("f2")
        ELSE /\ mouse_obj.z_index >= 2
             /\ ~handed["f2"].leave
             /\ handed["f2"].buttons
             /\ handed["f2"].x = mouse_obj.x /\ handed["f2"].y = mouse_obj.y

\* The Button of the first Frame took the click although the Button of the
\* second Frame lies under the pointer as well.
C10_Witness ==
    /\ tick_pc = "render"
    /\ ClickInOverlap
    /\ collide["f1"]
    /\ btn["b1"].mouse_down
    /\ CollidePoint(Rect("b2"), mouse_obj.x, mouse_obj.y)
    /\ Silent("f2")

\* C11: Frame.add_scroll_offset never leaves the offset of the given axis
\* outside [-(content extent - view extent), 0], whatever the amount and the
\* content extent (a content smaller than the view included), and the value
\* it returns is the offset it stored.
C11_ScrollClamp ==
    (geom.op = "add_scroll_offset" /\ geom.exc = "none") =>
        LET direction == geom.arg[2]
            offset == IF direction = "vertical" THEN geom.y_scroll_offset
                      ELSE geom.x_scroll_offset
        IN  /\ geom.ret = offset
            /\ offset <= 0
            /\ IF direction = "vertical"
               THEN -(GetContentHeight(geom) - geom.height) <= offset
               ELSE ContentWidthRaises(geom)
                      \/ -(GetContentWidth(geom) - geom.width) <= offset

\* The live DirNodes of the run that a collapse of the node at parent_index
\* removes: the nodes after it that are nested deeper.
RemovedRun(parent_index) ==
    {k \in (parent_index + 1)..(RunEnd(parent_index, objs[nodes[parent_index]].lvl) - 1) :
        objs[nodes[k]].kind = "dir" /\ ~objs[nodes[k]].del}

C13_CacheRoundTrip ==
    (cache.op = "load" /\ cache.scan.ok) =>
        /\ cache.load.ok
        /\ cache.load.dirs = cache.scan.dirs
        /\ \A i \in 1..Len(cache.listing) :
              cache.listing[i].type = "file" =>
                 \/ \A j \in 1..Len(cache.load.dirs) : cache.load.dirs[j] # cache.listing[i].path
                 \/ \E k \in 1..Len(cache.listing) :
                       /\ cache.listing[k].type = "directory"
                       /\ cache.listing[k].path = cache.listing[i].path

\* A file and a directory, with a path the writer has to quote, were
\* written and read back as the directory alone.
C13_Witness ==
    /\ cache.op = "load" /\ cache.scan.ok /\ cache.load.ok
    /\ Len(cache.listing) = 2
    /\ cache.listing[1].type = "file"
    /\ cache.listing[2].type = "directory"
    /\ cache.listing[2].path = <<"\"", "LF">>
    /\ cache.load.dirs = <<cache.listing[2].path>>

\* The loader l puts its result on the queue.
PutStep(l) ==
    /\ l <= Len(loaders)
    /\ loaders[l].pc = "put"
    /\ loaders'[l].pc = "done"
    /\ Len(pending_nodes') = Len(pending_nodes) + 1

\* The drain half of C14: where the node of the item has its placeholder,
\* draining (path, None) sets the placeholder's text to "Error" and changes
\* nothing else (no node added or moved, no loader started), and draining
\* (path, []) takes the placeholder out of nodes and moves every later node
\* up by EntryHeight.
DrainDistinguishes ==
    (DrainStep /\ HasPlaceholder(Head(pending_nodes).path)) =>
        LET item == Head(pending_nodes)
            load_index == LocateNodeObj(item.path) + 1
        IN  /\ ~item.ok =>
                  /\ objs' = [objs EXCEPT ![nodes[load_index]].text = "Error"]
                  /\ nodes' = nodes
                  /\ child_widgets' = child_widgets
                  /\ loaders' = loaders
                  /\ thread_objs' = thread_objs
                  /\ spawn_wait_list' = spawn_wait_list
            /\ (item.ok /\ item.dirs = <<>>) =>
                  /\ main_pc' # "crashed"
                  /\ Len(nodes') = Len(nodes) - 1
                  /\ \A k \in 1..Len(nodes') :
                        IF k < load_index
                        THEN objs'[nodes'[k]].y = objs[nodes[k]].y
                        ELSE objs'[nodes'[k]].y = objs[nodes[k + 1]].y - EntryHeight

\* C14: a loader whose scan or cache access failed publishes (path, None),
\* one that found no sub-directory publishes (path, []), and the drain
\* treats the two differently: "Error" on the placeholder for the first,
\* the placeholder removed and the later nodes moved up for the second.
C14_ErrorOrEmpty ==
    [][/\ \A l \in 1..Len(loaders) : PutStep(l) =>
             LET item == pending_nodes'[Len(pending_nodes')]
             IN  /\ item.path = loaders[l].path
                 /\ (~loaders[l].ok \/ loaders[l].cache_read = "failed") => ~item.ok
                 /\ (loaders[l].ok /\ loaders[l].cache_read # "failed"
                       /\ ScanDir(loaders[l].path) = <<>>) => (item.ok /\ item.dirs = <<>>)
       /\ DrainDistinguishes]_vars

\* C15: every loader whose start was deferred because a cache clear was
\* running is started by that clear, whatever the interleaving of the
\* expand with the last steps of clean_cache: once the refresh thread has
\* ended, no loader is still waiting to be started (none was dropped from
\* spawn_wait_list, none was left in it).
C15_DeferredStarted ==
    clean_pc \in {"none", "dead"} => \A l \in 1..Len(loaders) : loaders[l].pc # "wait"

\* C16: Frame.update leaves the position, the button state, the scroll
\* amount and the has-left flag of the Cursor object it was given as they
\* were, for a Frame of the main loop and for a Frame inside a Frame alike:
\* of that object only the z_index may have changed, and no child was given
\* that object itself.
C16_CursorPreserved ==
    \A f \in Frames \cup InnerFrames :
        passed[f].called =>
            /\ [passed[f].after EXCEPT !.z_index = passed[f].before.z_index] = passed[f].before
            /\ passed[f].ref \notin passed[f].given

\* The inner Frame was given the outer Frame's copy with the button down and
\* the wheel turned, the pointer over none of its children: it raised the
\* counter of that copy.
C16_Witness ==
    /\ tick_pc = "render"
    /\ passed["n1"].called
    /\ passed["n1"].ref = <<"f1", "scrolled_rel_mouse">>
    /\ passed["n1"].before.buttons
    /\ passed["n1"].before.scroll_amount # 0
    /\ passed["n1"].after.z_index = passed["n1"].before.z_index + 1
    /\ passed["n1"].given # {}
    /\ passed["f1"].after = passed["f1"].before
    /\ passed["f2"].called

\* The centroid of the child w of the Frame g.
Centroid(g, w) == <<g.rect[w].x + g.rect[w].w \div 2, g.rect[w].y + g.rect[w].h \div 2>>

\* The distance of a from the quotient p / q, q > 0, is at most one.
WithinOne(a, p, q) == a * q - p <= q /\ p - a * q <= q

\* A step that is the Frame.update of a resize tick.
ResizeTick == geom.new_size /\ geom'.n = geom.n + 1 /\ geom'.op = "update"

\* After the step, the centroid of every child that is neither excluded nor
\* a ScrollBar is within one pixel of the recorded centroid scaled by the
\* ratio of the new size to the recorded size.
Proportional ==
    \A w \in NonBars(geom) :
        geom.resize_exclude[w] = "none" =>
            /\ WithinOne(Centroid(geom', w)[1], geom.real_positions[w][1] * geom.width, RealSize.w)
            /\ WithinOne(Centroid(geom', w)[2], geom.real_positions[w][2] * geom.height, RealSize.h)

\* After a step that resizes to the recorded size, every such child is at
\* its recorded centroid.
BackAtRecorded ==
    (geom.width = RealSize.w /\ geom.height = RealSize.h) =>
        \A w \in NonBars(geom) :
            geom.resize_exclude[w] = "none" => Centroid(geom', w) = geom.real_positions[w]

\* C17 as stated: on a resize tick Frame.update moves every child that is
\* neither excluded nor a ScrollBar to its recorded centroid scaled by
\* S' / S, within a pixel, and a resize back to S puts it at its recorded
\* centroid.
C17_ResizeReturns == [][ResizeTick => (Proportional /\ BackAtRecorded)]_vars

\* C17, amended: on a resize tick Frame.update moves every child that is
\* neither excluded nor a ScrollBar to within one pixel of its recorded
\* centroid scaled by S' / S; that holds for a resize back to S as well,
\* which may leave the child one pixel from its recorded centroid.
C17_ResizeProportional == [][ResizeTick => Proportional]_vars

\* The Frame was resized to twice its width and one and a half times its
\* height, and the Label recorded at (105, 140) has its centroid at
\* (210, 210).
C17_Witness ==
    /\ geom.op = "update" /\ geom.arg = <<TRUE>>
    /\ geom.width = 200 /\ geom.height = 150
    /\ geom.real_positions["l1"] = <<105, 140>>
    /\ Centroid(geom, "l1") = <<210, 210>>

\* C18: on a resize tick a child excluded on an axis through
\* manual_move_widget keeps its coordinate on that axis, and a child
\* excluded on both axes does not move.
C18_ExcludedKept ==
    [][ResizeTick =>
          \A w \in NonBars(geom) :
              /\ geom.resize_exclude[w] \in {"x", "both"} => geom'.rect[w].x = geom.rect[w].x
              /\ geom.resize_exclude[w] \in {"y", "both"} => geom'.rect[w].y = geom.rect[w].y]_vars

\* A step in which the label of the node w is clicked.
SelectStep(w) ==
    /\ main_pc = "dispatch" /\ main_pc' = "sched"
    /\ w \in child_widgets /\ objs[w].kind = "dir"
    /\ last_call'.mode = "select" /\ last_call'.path = objs[w].path

\* The nodes on display that show the selected path as selected.
SelectedNodes == {v \in child_widgets : objs[v].kind = "dir" /\ objs[v].sel
                                          /\ objs[v].path = selected_path}

\* C19: a click on the label of a node whose path is not the selected path
\* calls path_binding once, with the path of the node, makes that path the
\* selected path and clears the selected flag of the node selected before;
\* a click on the node of the selected path does not call path_binding.
C19_SelectOnce ==
    [][\A w \in DOMAIN objs :
          SelectStep(w) =>
              IF objs[w].path = selected_path
              THEN path_bound' = path_bound
              ELSE /\ path_bound' = Append(path_bound, objs[w].path)
                   /\ selected_path' = objs[w].path
                   /\ \A v \in SelectedNodes : ~objs'[v].sel]_vars

\* C20: Frame.get_content_height returns the greatest y + image height of
\* the children that are not ScrollBars, plus padding_bottom, whatever the
\* ScrollBars are and also where every child lies above y = 0; without such
\* a child it returns padding_bottom.
C20_ContentHeight ==
    geom.op = "get_content_height" =>
        LET others == {w \in Widgets : WidgetClass(w) # "ScrollBar"
                                         /\ \E i \in 1..Len(geom.kids) : geom.kids[i] = w}
        IN  IF others = {} THEN geom.ret = PaddingBottom
            ELSE /\ \A w \in others : geom.rect[w].y + ImageSize(w).h <= geom.ret - PaddingBottom
                 /\ \E w \in others : geom.rect[w].y + ImageSize(w).h = geom.ret - PaddingBottom

\* get_content_height was called on the Frame of a ScrollBar and two
\* children that end above y = 0: it returned the bottom of the lower one,
\* -15, plus padding_bottom.
C20_Witness ==
    /\ geom.op = "get_content_height"
    /\ geom.kids = <<"b1", "l1", "s1">>
    /\ geom.rect["b1"].y + ImageSize("b1").h < 0
    /\ geom.rect["l1"].y + ImageSize("l1").h = -15
    /\ geom.rect["s1"].y + geom.rect["s1"].h > 0
    /\ geom.ret = PaddingBottom - 15

\* The sequence seq without the entries equal to x.
Without(seq, x) == SelectSeq(seq, LAMBDA e : e # x)

\* C21: Frame.raise_widget_layer(name) for a name of the render order moves
\* it to the last position, keeps the order of the other names and the set
\* of names, and changes nothing else of any Frame; for a name that is not
\* in the render order it raises WidgetIDError and changes nothing.
C21_RaiseLayer ==
    [][\A f \in Frames, name \in WidgetIds :
          (fcall'.n = fcall.n + 1 /\ fcall'.op = "raise" /\ fcall'.frame = f
             /\ fcall'.arg = name) =>
              LET old == frames[f].render_z_order
                  new == frames'[f].render_z_order
              IN  IF \E i \in 1..Len(old) : old[i] = name
                  THEN /\ fcall'.exc = "none"
                       /\ Len(new) = Len(old)
                       /\ new[Len(new)] = name
                       /\ Without(new, name) = Without(old, name)
                       /\ frames' = [frames EXCEPT ![f].render_z_order = new]
                       /\ parent' = parent
                  ELSE /\ fcall'.exc = "WidgetIDError"
                       /\ frames' = frames
                       /\ parent' = parent]_vars

\* The Button was added before the Label and was raised: it is drawn last.
C21_Witness ==
    /\ fcall.op = "raise" /\ fcall.frame = "f1" /\ fcall.arg = "!button"
    /\ fcall.exc = "none"
    /\ Len(frames["f1"].child_widgets) = 2
    /\ GetWidgetName(frames["f1"].child_widgets[1]) = "!button"
    /\ frames["f1"].render_z_order = <<"!label", "!button">>

\* C22: once the main loop has ended, the exit hook clean_cache() comes to
\* its end, also when results of loaders are still queued in pending_nodes.
C22_ShutdownTerminates == (main_pc = "shutdown") ~> (main_pc = "exited")

\* clean_cache holds safety_lock: it deletes the cache files and walks the
\* tree again.
CleanInCritical == clean_pc \in {"critical", "reload", "release"}

\* C23: while clean_cache is between the acquire and the release of
\* safety_lock, no NodeLoader thread that was started is still running.
C23_NoLoaderInCritical ==
    CleanInCritical => \A l \in 1..Len(loaders) : ~IsAlive(l)

\* C24: while the main thread holds an index that locate_node_obj returned,
\* no other thread changes nodes: the index designates the node it was
\* returned for until the main thread has used it.
C24_IndexStable ==
    main_pc = "located" =>
        /\ held.node_index <= Len(nodes)
        /\ objs[nodes[held.node_index]].name = held.node


\* The positions of LiveNodes that make up the child run of position i: the
\* entries after i up to the first one whose level is not below that of i.
ChildRun(i) ==
    LET stops == {k \in (i + 1)..Len(LiveNodes) :
                     objs[LiveNodes[k]].lvl <= objs[LiveNodes[i]].lvl}
        last == IF stops = {} THEN Len(LiveNodes) ELSE Min(stops) - 1
    IN  (i + 1)..last

\* The paths of the DirNodes that are direct children of position i, in order.
ChildDirs(i) ==
    LET run == SelectSeq([k \in 1..Len(LiveNodes) |-> k],
                         LAMBDA k : /\ k \in ChildRun(i)
                                    /\ objs[LiveNodes[k]].kind = "dir"
                                    /\ objs[LiveNodes[k]].lvl = objs[LiveNodes[i]].lvl + 1)
    IN  [j \in 1..Len(run) |-> objs[LiveNodes[run[j]]].path]

\* No loader is in flight: every loader has ended, none waits to be spawned
\* and no result is queued.
NoLoaderInFlight ==
    /\ \A l \in 1..Len(loaders) : loaders[l].pc = "done"
    /\ spawn_wait_list = <<>>
    /\ pending_nodes = <<>>

\* The refresh thread has done its work and the main thread is between two
\* updates.
RefreshComplete == clean_pc = "exit" /\ main_pc = "sched" /\ exc = "none"

\* C25: when a user-initiated refresh has completed and no loader is in
\* flight, the DirNodes in the child run of every expanded node are exactly
\* the directories of its path (none missing, none stale, none twice), and
\* the pre-order and layout invariants hold.
C25_RefreshExact ==
    (RefreshComplete /\ NoLoaderInFlight) =>
        /\ \A i \in 1..Len(LiveNodes) :
              (objs[LiveNodes[i]].kind = "dir" /\ objs[LiveNodes[i]].arrow = "down")
                  => /\ SeqToSet(ChildDirs(i)) = SeqToSet(ScanDir(objs[LiveNodes[i]].path))
                     /\ Len(ChildDirs(i)) = Len(ScanDir(objs[LiveNodes[i]].path))
        /\ C1_PreOrder
        /\ C6_Layout


\* The has-left dummy pointer: off the screen, mask cleared, no button down.
HasLeft(c) ==
    /\ c.leave /\ ~c.mask /\ ~c.buttons
    /\ c.x = -1 /\ c.y = -1 /\ c.scroll_amount = 0

\* The last update of Frame f found the Frame not live: its z_index differed
\* from the occlusion counter or its bounds did not contain the pointer.
NotLive(f) == passed[f].called /\ ~PointerEvents(f, passed[f].before)

\* The pointer that the child w of f received in the last update of f.
Received(f, w) ==
    IF WidgetClass(w) = "ScrollBar" THEN passed[f].rel_mouse
    ELSE passed[f].scrolled_rel_mouse

\* The children of f at its last update.
KidSet(f) == SeqToSet(Kids(frames, f))

\* C26: whenever a Frame is not live in a tick, its children receive the
\* has-left dummy pointer and an empty list of keyboard events.
C26_NotLiveDummy ==
    \A f \in Frames \cup InnerFrames :
        (NotLive(f) /\ KidSet(f) # {}) =>
            /\ \A w \in KidSet(f) : HasLeft(Received(f, w))
            /\ passed[f].keyboard_events = <<>>

\* C26 as the code has it: a Frame that is not live gives the has-left dummy
\* to every child that is not a ScrollBar; if its z_index differs from the
\* occlusion counter the ScrollBars get the dummy too and the list of
\* keyboard events is empty, and if the z_index equals the counter (the
\* bounds do not contain the pointer) the ScrollBars get the translated copy
\* of the pointer and the keyboard events are passed on as they came.
C26_NotLiveGating ==
    \A f \in Frames \cup InnerFrames :
        NotLive(f) =>
            /\ HasLeft(passed[f].scrolled_rel_mouse)
            /\ IF ZIndex(f) # passed[f].before.z_index
               THEN /\ HasLeft(passed[f].rel_mouse)
                    /\ passed[f].keyboard_events = <<>>
               ELSE /\ passed[f].rel_mouse.leave = passed[f].before.leave
                    /\ ~passed[f].before.leave =>
                          /\ passed[f].rel_mouse.x = passed[f].before.x - FrameRect(f).x
                          /\ passed[f].rel_mouse.y = passed[f].before.y - FrameRect(f).y
                          /\ passed[f].rel_mouse.buttons = passed[f].before.buttons
                    /\ passed[f].keyboard_events = passed[f].keyboard_in

\* Frame f1 holds a ScrollBar and was updated with the pointer outside its
\* bounds while the counter was at its z_index and a key was pressed: the
\* bar received a pointer that has not left, the keyboard events were passed
\* on; the Frame above, not at the counter, passed none.
C26_Witness ==
    /\ NotLive("f1") /\ NotLive("f2")
    /\ "s1" \in KidSet("f1")
    /\ ZIndex("f1") = passed["f1"].before.z_index
    /\ ~passed["f1"].rel_mouse.leave
    /\ passed["f1"].keyboard_events # <<>>
    /\ ZIndex("f2") # passed["f2"].before.z_index
    /\ passed["f2"].keyboard_in # <<>>
    /\ tick_pc = "render"


\* The last update of Frame f found the Frame live.
Live(f) == passed[f].called /\ PointerEvents(f, passed[f].before)

\* A child of f collided with the pointer in the last update of f: a
\* ScrollBar with the pointer in the Frame's coordinates, or any child with
\* the pointer it was tested against.
ChildCollided(f) ==
    \/ /\ f \in Frames
       /\ \E i \in 1..Len(frames[f].scrollbar_names) :
             MouseColliding(ChildObj(frames[f], frames[f].scrollbar_names[i]),
                            passed[f].rel_mouse)
    \/ \E w \in KidSet(f) : ChildCollides(w, passed[f].scrolled_rel_mouse)

\* The counter is raised by one exactly when the Frame was live and no child
\* collided with the pointer, and is left as it was otherwise; no other
\* field of the pointer changes.
CounterRule(f) ==
    /\ passed[f].after.z_index =
          IF Live(f) /\ ~ChildCollided(f) THEN passed[f].before.z_index + 1
          ELSE passed[f].before.z_index
    /\ passed[f].after.z_index >= passed[f].before.z_index

\* C27: Frame.update passes a real (not has-left) pointer to a child only if
\* the Frame is live, and raises the occlusion counter by exactly one if and
\* only if the Frame was live and no child collided with the pointer; in
\* every other case the counter is unchanged, so it never decreases.
C27_RealPointerOnlyIfLive ==
    \A f \in Frames \cup InnerFrames :
        passed[f].called =>
            /\ \A w \in KidSet(f) : ~Received(f, w).leave => Live(f)
            /\ CounterRule(f)

\* C27 as the code has it: a child that is not a ScrollBar receives a real
\* pointer only if the Frame is live, a ScrollBar only if the Frame's
\* z_index equals the occlusion counter; the rule of the counter is as
\* stated.
C27_CounterRule ==
    \A f \in Frames \cup InnerFrames :
        passed[f].called =>
            /\ ~passed[f].scrolled_rel_mouse.leave => Live(f)
            /\ ~passed[f].rel_mouse.leave => ZIndex(f) = passed[f].before.z_index
            /\ CounterRule(f)

\* In one tick the lower Frame was live with no child under the pointer and
\* raised the counter from 1 to 2; the upper Frame was then live, its Button
\* was under the pointer, and it left the counter at 2.
C27_Witness ==
    /\ tick_pc = "render"
    /\ Live("f1") /\ ~ChildCollided("f1") /\ KidSet("f1") # {}
    /\ passed["f1"].before.z_index = 1 /\ passed["f1"].after.z_index = 2
    /\ Live("f2") /\ ChildCollided("f2")
    /\ passed["f2"].after.z_index = 2
    /\ mouse_obj.z_index = 2


\* The step is the end of loader l's scan or cache read, where the cancel
\* flag is read.
FlagRead(l) == loaders[l].pc = "run" /\ loaders'[l].pc # "run"

\* The step is loader l's put on pending_nodes.
PutOne(l) ==
    /\ loaders[l].pc = "put" /\ loaders'[l].pc = "done"
    /\ Len(pending_nodes') = Len(pending_nodes) + 1
    /\ SubSeq(pending_nodes', 1, Len(pending_nodes)) = pending_nodes
    /\ pending_nodes'[Len(pending_nodes')].path = loaders[l].path

\* C28: a NodeLoader reads its cancel flag once, when its cache read or scan
\* has finished: if the flag is set then, the loader ends and never puts
\* anything; otherwise it goes on to put exactly one item of its path, and
\* ends.  pending_nodes grows by the put of one loader only.
C28_CancelReadOnce ==
    [][/\ \A l \in 1..Len(loaders) :
             /\ FlagRead(l) =>
                   /\ loaders'[l].pc = IF loaders[l].canceled THEN "done" ELSE "put"
                   /\ pending_nodes' = pending_nodes
             /\ (loaders[l].pc = "put" /\ loaders'[l].pc # "put") => PutOne(l)
             /\ loaders[l].pc = "done" => loaders'[l].pc = "done"
       /\ Len(pending_nodes') > Len(pending_nodes) =>
             Cardinality({l \in 1..Len(loaders) : PutOne(l)}) = 1]_vars

\* A loader of a was cancelled and has ended without a put, having scanned
\* the directory; a later loader of a has read the cache file instead of
\* scanning and is about to put the list.
C28_Witness ==
    \E k, l \in 1..Len(loaders) :
        /\ k < l
        /\ loaders[k].path = loaders[l].path
        /\ loaders[k].path # FsRoot
        /\ loaders[k].canceled /\ loaders[k].pc = "done"
        /\ ~loaders[l].canceled /\ loaders[l].pc = "put"
        /\ loaders[l].cache_read = "ok"
        /\ loaders[l].dirs = ScanDir(loaders[l].path)
        /\ \A i \in 1..Len(pending_nodes) : pending_nodes[i].path # loaders[k].path


\* The cache file can be parsed: its first row is the header filetype,path
\* and every other row has the two fields, the first of them a file type.
Parses(file) ==
    /\ file # NoFile
    /\ LET rows == SelectSeq(ReadChars(file, 1, NewReader).rows, LAMBDA r : r # <<>>)
       IN  /\ rows # <<>>
           /\ rows[1] = << <<"filetype">>, <<"path">> >>
           /\ \A i \in 2..Len(rows) :
                 /\ Len(rows[i]) = 2
                 /\ rows[i][1] \in {<<"directory">>, <<"file">>}

\* The directories of the listing, in order.
ListedDirs(listing) ==
    LET ds == SelectSeq(listing, LAMBDA e : e.type = "directory")
    IN  [i \in 1..Len(ds) |-> ds[i].path]

\* C29: when the cache file cannot be parsed (no header row, or a malformed
\* row), the loader does not use its content: unless the scan raises, it
\* writes the cache file anew and publishes the directories of the scan, so
\* that no directory of the listing is missing from what it publishes.
C29_UnparsedRescanned ==
    [][(cache'.op = "loader" /\ cache.file # NoFile /\ ~Parses(cache.file)) =>
          /\ ~cache'.load.ok
          /\ cache'.put.ok =>
                /\ cache'.file = ScanDirGenCache(cache.listing).file
                /\ cache'.put.dirs = ListedDirs(cache.listing)]_vars


\* The step is an accepted expand: start_path_loader("expand", ..) that
\* answers True.
AcceptedExpand == CallStep("expand") /\ last_call'.ret

\* The step puts one "Loading..." TextNode right after position k of nodes,
\* one nest level below the node there, and leaves the other entries of
\* nodes and their order as they were.
PlaceholderAfter(k) ==
    /\ Len(nodes') = Len(nodes) + 1
    /\ nodes' = InsertAt(nodes, k + 1, nodes'[k + 1])
    /\ nodes'[k + 1] \notin SeqToSet(nodes)
    /\ objs'[nodes'[k + 1]].kind = "text"
    /\ objs'[nodes'[k + 1]].text = "Loading..."
    /\ objs'[nodes'[k + 1]].lvl = objs[nodes[k]].lvl + 1
    /\ ~objs'[nodes'[k + 1]].del

\* The step creates one NodeLoader, of the path p: started and registered
\* in thread_objs under p or, while the refresh thread is alive, appended to
\* spawn_wait_list and not started.
OneLoaderFor(p) ==
    LET new_thread == Len(loaders) + 1
    IN  /\ Len(loaders') = Len(loaders) + 1
        /\ \A l \in 1..Len(loaders) : loaders'[l] = loaders[l]
        /\ loaders'[new_thread].path = p
        /\ ~loaders'[new_thread].canceled
        /\ IF CleanAlive
           THEN /\ loaders'[new_thread].pc = "wait"
                /\ spawn_wait_list' = Append(spawn_wait_list, new_thread)
                /\ thread_objs'[p] # new_thread
           ELSE /\ loaders'[new_thread].pc = "run"
                /\ thread_objs'[p] = new_thread
                /\ spawn_wait_list' = spawn_wait_list

C31_DrainReplaces ==
    [][(DrainStep /\ Head(pending_nodes).ok /\ HasPlaceholder(Head(pending_nodes).path)) =>
          LET item == Head(pending_nodes)
              parent_index == LocateNodeObj(item.path)
              load_index == parent_index + 1
              k == Len(item.dirs)
          IN  /\ main_pc' # "crashed"
              /\ Len(nodes') = Len(nodes) - 1 + k
              /\ \A j \in 1..parent_index : objs'[nodes'[j]] = objs[nodes[j]]
              /\ \A j \in 1..k :
                    /\ objs'[nodes'[parent_index + j]].kind = "dir"
                    /\ objs'[nodes'[parent_index + j]].path = item.dirs[j]
                    /\ objs'[nodes'[parent_index + j]].lvl = objs[nodes[parent_index]].lvl + 1
              /\ \A j \in (load_index + 1)..Len(nodes) :
                    objs'[nodes'[j + k - 1]] =
                        [objs[nodes[j]] EXCEPT !.y = @ + (k - 1) * EntryHeight]]_vars


\* The state of the node of path p in the tree `nd`, `ob`: "absent" when no
\* live DirNode of p is in the sequence, "collapsed" when its arrow points
\* right, "expanding" when it points down and the "Loading..." placeholder
\* follows the node, and "expanded" otherwise.
NodeStateIn(nd, ob, p) ==
    LET hits == {i \in 1..Len(nd) : ob[nd[i]].kind = "dir" /\ ob[nd[i]].path = p}
        k == Min(hits)
    IN  IF hits = {} THEN "absent"
        ELSE IF ob[nd[k]].del THEN "absent"
        ELSE IF ob[nd[k]].arrow = "right" THEN "collapsed"
        ELSE IF /\ k < Len(nd)
                /\ ob[nd[k + 1]].kind = "text"
                /\ ob[nd[k + 1]].text = "Loading..."
                /\ ob[nd[k + 1]].lvl = ob[nd[k]].lvl + 1
                /\ ~ob[nd[k + 1]].del
        THEN "expanding"
        ELSE "expanded"

NodeState(p) == NodeStateIn(nodes, objs, p)

NodeStateNext(p) == NodeStateIn(nodes', objs', p)

\* The step is a call of start_path_loader(mode, p) that answers True.
Accepted(mode, p) == CallStep(mode) /\ last_call'.path = p /\ last_call'.ret

\* The step changes the state of the node of p along one of the four
\* transitions.
Transition(p) ==
    \/ /\ NodeState(p) = "collapsed" /\ NodeStateNext(p) = "expanding"
       /\ Accepted("expand", p)
    \/ /\ NodeState(p) = "expanding" /\ NodeStateNext(p) = "expanded"
       /\ DrainStep /\ Head(pending_nodes).path = p
    \/ /\ NodeState(p) = "expanding" /\ NodeStateNext(p) = "collapsed"
       /\ Accepted("collapse", p)
       /\ \A l \in 1..Len(loaders) :
             (loaders[l].path = p /\ loaders[l].pc \in {"run", "wait"})
                 => loaders'[l].canceled
    \/ /\ NodeState(p) = "expanded" /\ NodeStateNext(p) = "collapsed"
       /\ Accepted("collapse", p)

\* C32: the state of a node changes only along the four transitions, a
\* collapse creates and starts no NodeLoader, and a toggle that
\* start_path_loader rejects leaves every node's state and arrow as they
\* were.
C32_NodeLifecycle ==
    [][/\ \A p \in Paths :
             (NodeState(p) # "absent" /\ NodeStateNext(p) # "absent"
                /\ NodeStateNext(p) # NodeState(p)) => Transition(p)
       /\ CallStep("collapse") =>
             /\ Len(loaders') = Len(loaders)
             /\ \A l \in 1..Len(loaders) : loaders'[l].pc = loaders[l].pc
       /\ (main_pc = "dispatch" /\ main_pc' = "sched"
             /\ last_call'.mode \in {"expand", "collapse"} /\ ~last_call'.ret) =>
             /\ nodes' = nodes
             /\ objs' = objs]_vars


\* The number of DirNodes in the sequence `nd` of the objects `ob`.
DirCount(nd, ob) == Cardinality({k \in 1..Len(nd) : ob[nd[k]].kind = "dir"})

\* The order of the parts of DirTree.update: the scheduled tasks, the
\* drain, the dispatch of the child widgets.
UpdateOrder ==
    {<<"sched", "drain">>, <<"drain", "dispatch">>, <<"dispatch", "sched">>,
     <<"sched", "crashed">>, <<"drain", "crashed">>, <<"dispatch", "crashed">>}

\* C33: loader results are applied to nodes only by add_pending_nodes on
\* the main thread, in the order in which they were put on pending_nodes;
\* in every update the scheduled additions and deletions run first, then
\* every result queued at that moment is drained, and only then are the
\* child widgets dispatched, so no result is applied during a dispatch.
C33_DrainOrder ==
    [][/\ main_pc' # main_pc => <<main_pc, main_pc'>> \in UpdateOrder
       /\ (main_pc = "sched" /\ main_pc' = "drain") =>
             schded_widgets' = <<>> /\ schded_del_widgets' = <<>>
       /\ (main_pc = "drain" /\ main_pc' = "dispatch") =>
             pending_nodes = <<>> /\ pending_nodes' = <<>>
       /\ pending_nodes' # pending_nodes =>
             \/ DrainStep
             \/ \E l \in 1..Len(loaders) : PutOne(l)
       /\ DirCount(nodes', objs') > DirCount(nodes, objs) =>
             DrainStep /\ Head(pending_nodes).ok
       /\ main_pc = "dispatch" =>
             /\ Len(pending_nodes') >= Len(pending_nodes)
             /\ DirCount(nodes', objs') <= DirCount(nodes, objs)]_vars

\* Two results were queued, for b and then for a, while the main thread was
\* draining; the one put first (b, an error) has been applied and the one
\* put second is next.
C33_Witness ==
    /\ main_pc = "drain"
    /\ Len(pending_nodes) = 1
    /\ pending_nodes[1].path = "a" /\ pending_nodes[1].ok
    /\ last_call.mode = "drain" /\ last_call.path = "b"
    /\ \E k \in 1..Len(nodes) : objs[nodes[k]].kind = "text" /\ objs[nodes[k]].text = "Error"
    /\ HasPlaceholder("a")


\* The step is a call of DirTree.refresh.
RefreshCall ==
    /\ main_pc = "sched" /\ main_pc' = "sched"
    /\ last_call'.mode = "refresh"
    /\ last_call' # last_call \/ refreshes' # refreshes

\* C34: a call of refresh while the refresh thread started before is alive
\* starts no thread and changes no state of the tree, so at most one
\* user-initiated clean_cache runs at a time; and the critical sections of
\* clean_cache and of run_del_nodes never overlap: while clean_cache is in
\* its critical section it holds safety_lock, and no sweep does.
C34_OneRefresh ==
    /\ [][(RefreshCall /\ clean_pc \notin {"none", "dead"}) =>
             /\ ~last_call'.ret
             /\ UNCHANGED <<clean_pc, clean_join, refreshes, safety_lock, nodes, objs,
                            child_widgets, thread_objs, loaders, spawn_wait_list,
                            pending_nodes, dir_stack, stack_idx, flat_idx, spawn_idx>>]_vars
    /\ [](CleanInCritical => safety_lock = "clean")
    /\ [](safety_lock = "sweep" => ~CleanInCritical)

\* Refresh was clicked again while clean_cache was in its critical section
\* and a sweep thread was waiting for the lock: the call was ignored.
C34_Witness ==
    /\ last_call = [NoCall EXCEPT !.mode = "refresh"]
    /\ clean_pc = "reload"
    /\ safety_lock = "clean"
    /\ sweep_wait > 0
    /\ refreshes = 1


\* At the last update of Frame f the pointer was over one of its ScrollBars.
OverScrollBar(f) ==
    /\ f \in Frames
    /\ \E w \in KidSet(f) :
          /\ WidgetClass(w) = "ScrollBar"
          /\ CollidePoint(Rect(w), passed[f].before.x - FrameRect(f).x,
                                   passed[f].before.y - FrameRect(f).y)

\* C35: if the pointer of a live Frame is over one of the Frame's
\* ScrollBars, every child that is not a ScrollBar is updated with a
\* has-left pointer in that tick, so no Button of the Frame reacts to hover
\* or click, and the Frame does not raise the occlusion counter.
C35_ScrollBarWins ==
    \A f \in Frames :
        (Live(f) /\ OverScrollBar(f)) =>
            /\ \A w \in KidSet(f) : WidgetClass(w) # "ScrollBar" => HasLeft(Received(f, w))
            /\ \A w \in KidSet(f) \cap Buttons : ~Reacts(w)
            /\ passed[f].after.z_index = passed[f].before.z_index

\* The lower Frame holds a Button, a Label and a ScrollBar; it was live with
\* the mouse button down and the pointer over the ScrollBar, so the counter
\* stayed at 1 and the Frame above was not live.
C35_Witness ==
    /\ tick_pc = "render"
    /\ Live("f1") /\ OverScrollBar("f1")
    /\ passed["f1"].before.buttons
    /\ "b1" \in KidSet("f1") /\ "l1" \in KidSet("f1")
    /\ ~passed["f1"].rel_mouse.leave
    /\ mouse_obj.z_index = 1
    /\ NotLive("f2")


\* The Frame g has a ScrollBar child.
HasBar(g) == \E i \in 1..Len(g.kids) : WidgetClass(g.kids[i]) = "ScrollBar"

\* The thumb of the ScrollBar of g is as long as its track.
ThumbIsTrack(g) == g.thumb.height = g.thumb.track_length

\* This step is a Frame.update in which the ScrollBar computes the length
\* of its thumb: after a resize, or because the content height changed.
LengthComputed ==
    /\ geom'.op = "update" /\ geom'.n # geom.n /\ HasBar(geom)
    /\ geom.new_size \/ geom'.content_height # geom.content_height

\* C36: an update_scrollbar_length that computes a thumb as long as the
\* track leaves the Frame's vertical scroll offset at 0 and scroll_factor
\* None; a ScrollBar.update whose scroll_factor is None leaves the offset
\* where update_scrollbar_length left it, whatever the wheel, the buttons
\* and a drag of the thumb ask for.
C36_FittingContent ==
    [][(geom'.op = "update" /\ geom'.n # geom.n /\ HasBar(geom)) =>
          /\ (LengthComputed /\ ThumbIsTrack(geom')) =>
                geom'.y_scroll_offset = 0 /\ ~geom'.can_scroll
          /\ ~geom'.can_scroll =>
                \/ geom'.y_scroll_offset = geom.y_scroll_offset
                \/ LengthComputed /\ ThumbIsTrack(geom') /\ geom'.y_scroll_offset = 0]_vars

\* A ScrollBar whose thumb fills the track was updated with the wheel
\* turned while its thumb was held down.
C36_Witness ==
    /\ geom.op = "update" /\ HasBar(geom)
    /\ ThumbIsTrack(geom) /\ ~geom.can_scroll
    /\ geom.arg[3] = -1
    /\ geom.thumb.mouse_down


\* C39: Frame.add_scroll_offset(0, axis) returns the offset of the axis and
\* leaves both offsets as they were, and so ScrollBar.scroll_by_content(0),
\* the call resize_scrollbar ends with, leaves the content where it is.
C39_ZeroIsNoOp ==
    /\ [][(geom'.op = "add_scroll_offset" /\ geom'.n # geom.n /\ geom'.arg[1] = 0) =>
             /\ geom'.x_scroll_offset = geom.x_scroll_offset
             /\ geom'.y_scroll_offset = geom.y_scroll_offset
             /\ geom'.ret = IF geom'.arg[2] = "vertical" THEN geom.y_scroll_offset
                            ELSE geom.x_scroll_offset]_vars
    /\ [](HasBar(geom) =>
             ScrollByContent(geom, 0).y_scroll_offset = geom.y_scroll_offset)


\* The paths of the DirNodes of the descendant run of the node at
\* parent_index: the nodes after it that are nested deeper.
RunPaths(parent_index) ==
    {objs[nodes[k]].path :
        k \in {j \in (parent_index + 1)..(RunEnd(parent_index, objs[nodes[parent_index]].lvl) - 1) :
                  objs[nodes[j]].kind = "dir"}}

\* The drain step changes the node sequence or a node: the result at the
\* head of pending_nodes is applied.
ResultApplied == DrainStep /\ (nodes' # nodes \/ objs' # objs)

\* C37: a collapse sets the cancel flag of every loader registered in
\* thread_objs for the path of a DirNode of the removed run, and no result
\* that was outstanding for such a path is applied to the node sequence,
\* whenever its loader puts it.
C37_RemovedRunCancelled ==
    [][/\ (CallStep("collapse") /\ last_call'.ret) =>
             \A l \in 1..Len(loaders) :
                 (/\ thread_objs'[loaders[l].path] = l
                  /\ loaders[l].path \in RunPaths(LocateNodeObj(last_call'.path)))
                     => loaders'[l].canceled
       /\ ResultApplied => ~loaders[Head(pending_nodes).by].removed]_vars


\* The names of the ScrollBar children of the Frame fr, in the order of
\* child_widgets.
RECURSIVE ScrollBarNames(_, _)
ScrollBarNames(fr, k) ==
    IF k > Len(fr.child_widgets) THEN <<>>
    ELSE (IF WidgetClass(fr.child_widgets[k]) = "ScrollBar"
          THEN <<GetWidgetName(fr.child_widgets[k])>> ELSE <<>>)
         \o ScrollBarNames(fr, k + 1)

\* C38: after every add_widget, delete_widget and raise_widget_layer call,
\* raising or not, the names that are keys of child_widgets are the keys of
\* real_positions and the names in render_z_order, render_z_order holds no
\* name twice, and scrollbar_names is the list of the names of the
\* ScrollBar children.
C38_FrameBookkeeping ==
    \A f \in Frames :
        /\ ChildIds(frames[f]) = DOMAIN frames[f].real_positions
        /\ ChildIds(frames[f]) = SeqToSet(frames[f].render_z_order)
        /\ Cardinality(SeqToSet(frames[f].render_z_order)) = Len(frames[f].render_z_order)
        /\ frames[f].scrollbar_names = ScrollBarNames(frames[f], 1)


\* C40: every run of fetch_scores puts exactly one item on data_queue,
\* whatever the scoreboard file is, and a get_data called when the last
\* fetch started has ended returns an item of that fetch.
C40_OneItemPerFetch ==
    [][/\ (score_db.io_thread = "run" /\ score_db'.io_thread = "dead") =>
             Len(score_db'.data_queue) = Len(score_db.data_queue) + 1
       /\ (score_db'.op = "get_data" /\ score_db.op # "get_data"
              /\ score_db.io_thread = "dead") =>
             /\ ~score_db'.blocked
             /\ score_db'.got.status # "none"
             /\ score_db'.got.fetch = score_db.fetches]_vars

====
